---- MODULE Spec2Model ----
(***************************************************************************)
(* A model of skew_fix_ps.py, the PrusaSlicer post-processing hook that    *)
(* shears the XY coordinates of a text G-code file in place.               *)
(*                                                                         *)
(* Numbers.  The program computes with floats; the model computes with     *)
(* integers that count eighths of a millimetre, so that every halving the  *)
(* program performs (0.5 * (a + b)) is exact on the inputs enumerated      *)
(* here.  Half is undefined on an odd argument, and TLC stops with an      *)
(* error if an enumerated input ever leaves the exact domain.  The shear   *)
(* coefficient k = tan(theta) is an integer (theta in {-45, 0, 45} deg).   *)
(* Angles count quarter turns; the arcs enumerated start and end on the    *)
(* axes through their centre.  Where an interpolated angle is a whole      *)
(* number of quarter turns cos and sin are exact; elsewhere the point is   *)
(* kept as its centre, radius and angle, an exact description of the       *)
(* value the program computes, and the documents given to the passes have  *)
(* no such point.  E and F values are counted in the same eighths.         *)
(*                                                                         *)
(* Text.  A line is [cmd, words, comment]: cmd is the command token as a   *)
(* sequence of characters, words the axis words in textual order as        *)
(* <<letter, number, sep>> triples, comment the text from the first ';'    *)
(* on.  A number is decimal text <<m, d>>: the integer m with d decimal    *)
(* places; sep is " " when whitespace follows the number and "" when the   *)
(* next word follows it directly.                                          *)
(***************************************************************************)
EXTENDS Integers, Sequences, FiniteSets, TLC

VARIABLES
    file,         \* the target file: [head, hdr, lines]
    file0,        \* the target file as it was when the call was made
    p,            \* the arguments of the call under way
    pc,           \* position in the called function
    err,          \* "none", or the hard error that ended the call
    obox,         \* result of compute_inbed_extruding_bounds_original
    y_ref,        \* rewrite's local y_ref
    dx, dy,       \* rewrite's locals dx, dy
    skew_bounds,  \* rewrite's local skew_bounds
    tmp,          \* the temporary file: [exists, hdr, lines]
    st,           \* rewrite's tracker State
    idx,          \* number of input lines the rewrite loop has consumed
    stdout,       \* lines printed by analyze-only
    ret           \* the value returned by a function called on its own

vars == <<file, file0, p, pc, err, obox, y_ref, dx, dy, skew_bounds, tmp, st, idx, stdout,
          ret>>

---------------------------------------------------------------------------
(* Arithmetic helpers *)

Undefined == CHOOSE u \in {} : TRUE

Min2(a, b) == IF a <= b THEN a ELSE b
Max2(a, b) == IF a >= b THEN a ELSE b
Abs(a) == IF a < 0 THEN -a ELSE a

MaxOf(S) == CHOOSE m \in S : \A o \in S : m >= o

\* 0.5 * v, exact
Half(v) == IF v % 2 = 0 THEN v \div 2 ELSE Undefined

\* ceil(n / d) for d > 0
CeilDiv(n, d) == -((-n) \div d)

\* n millimetres in model units
Mm(n) == 8 * n

\* float("inf")
Inf == 1000000

---------------------------------------------------------------------------
(* Line parser *)

RECURSIVE Pow10(_)
Pow10(n) == IF n = 0 THEN 1 ELSE 10 * Pow10(n - 1)

\* float(text) in model units, for decimal text <<m, d>>
float(num) ==
    IF (8 * num[1]) % Pow10(num[2]) = 0
    THEN (8 * num[1]) \div Pow10(num[2])
    ELSE Undefined

\* dict built by parse_words: for a repeated letter the last match wins
parse_words(words) ==
    [a \in {words[i][1] : i \in DOMAIN words} |->
        float(words[MaxOf({i \in DOMAIN words : words[i][1] = a})][2])]

\* round(n / d) to the nearest integer, ties to even, d > 0
RoundHalfEven(n, d) ==
    LET q == n \div d
        r == n % d
    IN  IF 2 * r < d THEN q
        ELSE IF 2 * r > d THEN q + 1
        ELSE IF q % 2 = 0 THEN q ELSE q + 1

\* rstrip("0") of the digits of m printed with d decimal places: trailing
\* zeros go, up to the decimal point when there is one (d > 0) and through
\* the integer digits when there is none (d = 0)
RECURSIVE StripZeros(_, _)
StripZeros(m, d) ==
    IF m = 0 THEN <<0, 0>>
    ELSE IF m % 10 # 0 THEN <<m, d>>
    ELSE IF d > 1 THEN StripZeros(m \div 10, d - 1)
    ELSE IF d = 1 THEN <<m \div 10, 0>>
    ELSE StripZeros(m \div 10, 0)

\* _fmt_fixed of the value n / den model units (den > 0): the decimal text
_fmt_fixed(n, den, places) ==
    StripZeros(RoundHalfEven(n * Pow10(places), 8 * den), places)

fmt_axis(axis, n, den, xy_places, other_places) ==
    _fmt_fixed(n, den, IF axis \in {"X", "Y"} THEN xy_places ELSE other_places)

\* A word of the code is <<letter, numeral, sep>>: sep is what stands between
\* the numeral and the next word, " " for whitespace and "" for nothing.

\* How  \b{axis}\s*(-?\d+(?:\.\d*)?|-?\.\d+)\b  matches at word i, a word of
\* that axis. The first \b needs a non-word character before the letter and
\* the last \b one after the match: with a letter right after the numeral the
\* pattern backtracks to the integer digits and the point, which a digit
\* follows, and fails when the numeral has no point.
pat_match(words, i) ==
    IF i > 1 /\ words[i - 1][3] = "" THEN "none"
    ELSE IF i = Len(words) \/ words[i][3] # "" THEN "whole"
    ELSE IF words[i][2][2] > 0 THEN "to_point"
    ELSE "none"

\* pat.search(code): the first word the pattern matches at, 0 when none
RECURSIVE FirstIndex(_, _, _)
FirstIndex(words, axis, i) ==
    IF i > Len(words) THEN 0
    ELSE IF words[i][1] = axis /\ pat_match(words, i) # "none" THEN i
    ELSE FirstIndex(words, axis, i + 1)

\* the numeral read when the decimals of old, left in place by a match that
\* stopped at the point, follow the text of tok
left_decimals(tok, old) ==
    LET f == Abs(old[1]) % Pow10(old[2])
        m == Abs(tok[1]) * Pow10(old[2]) + f
    IN  <<IF tok[1] < 0 THEN 0 - m ELSE m, IF tok[2] = 0 THEN 0 ELSE tok[2] + old[2]>>

\* pat.sub(tok, code, 1) at word i
pat_sub(words, i, axis, tok) ==
    [words EXCEPT ![i] = <<axis,
                           IF pat_match(words, i) = "whole" THEN tok
                           ELSE left_decimals(tok, words[i][2]),
                           words[i][3]>>]

\* code + " " + tok
appended(words, axis, tok) ==
    IF words = <<>> THEN << <<axis, tok, " ">> >>
    ELSE Append([words EXCEPT ![Len(words)][3] = " "], <<axis, tok, " ">>)

\* replace_or_append on the words of the code: the first match of the pattern
\* is replaced, and the word is appended when the pattern matches nowhere
replace_or_append(words, axis, n, xy_places, other_places) ==
    IF FirstIndex(words, axis, 1) > 0
    THEN pat_sub(words, FirstIndex(words, axis, 1), axis,
                 fmt_axis(axis, n, 1, xy_places, other_places))
    ELSE appended(words, axis, fmt_axis(axis, n, 1, xy_places, other_places))

Has(w, a) == a \in DOMAIN w
Get(w, a, d) == IF a \in DOMAIN w THEN w[a] ELSE d

StartsWith(s, pre) == Len(s) >= Len(pre) /\ SubSeq(s, 1, Len(pre)) = pre

\* \w of the regular expressions, over the characters used in command tokens
IsWordChar(c) == c # "."

\* ^(a1|a2)\b matched against the stripped code
MatchHead(s, alts) ==
    \E a \in alts : /\ StartsWith(s, a)
                    /\ (Len(s) = Len(a) \/ ~IsWordChar(s[Len(a) + 1]))

MOVE_RE(s) == MatchHead(s, {<<"G", "0">>, <<"G", "1">>})
ARC_RE(s) == MatchHead(s, {<<"G", "2">>, <<"G", "3">>})

---------------------------------------------------------------------------
(* Modal state tracker *)

State0 ==
    [abs_xy |-> TRUE, abs_e |-> TRUE, ij_relative |-> TRUE,
     x |-> 0, y |-> 0, z |-> 0, e |-> 0, f |-> <<>>]

\* variant of ModalUpdate: the G90 and G91 prefixes are tested first
plain_prefix_first(s, up) ==
    IF StartsWith(up, <<"G", "9", "0">>) THEN [s EXCEPT !.abs_xy = TRUE]
    ELSE IF StartsWith(up, <<"G", "9", "1">>) THEN [s EXCEPT !.abs_xy = FALSE]
    ELSE IF StartsWith(up, <<"G", "9", "0", ".", "1">>) THEN [s EXCEPT !.ij_relative = FALSE]
    ELSE IF StartsWith(up, <<"G", "9", "1", ".", "1">>) THEN [s EXCEPT !.ij_relative = TRUE]
    ELSE IF StartsWith(up, <<"M", "8", "2">>) THEN [s EXCEPT !.abs_e = TRUE]
    ELSE IF StartsWith(up, <<"M", "8", "3">>) THEN [s EXCEPT !.abs_e = FALSE]
    ELSE s

\* the chain of startswith tests every pass opens with
IsModal(up) ==
    \/ StartsWith(up, <<"G", "9", "0", ".", "1">>)
    \/ StartsWith(up, <<"G", "9", "1", ".", "1">>)
    \/ StartsWith(up, <<"G", "9", "0">>)
    \/ StartsWith(up, <<"G", "9", "1">>)
    \/ StartsWith(up, <<"M", "8", "2">>)
    \/ StartsWith(up, <<"M", "8", "3">>)

ModalUpdate(s, up) ==
    IF StartsWith(up, <<"G", "9", "0", ".", "1">>) THEN [s EXCEPT !.ij_relative = FALSE]
    ELSE IF StartsWith(up, <<"G", "9", "1", ".", "1">>) THEN [s EXCEPT !.ij_relative = TRUE]
    ELSE IF StartsWith(up, <<"G", "9", "0">>) THEN [s EXCEPT !.abs_xy = TRUE]
    ELSE IF StartsWith(up, <<"G", "9", "1">>) THEN [s EXCEPT !.abs_xy = FALSE]
    ELSE IF StartsWith(up, <<"M", "8", "2">>) THEN [s EXCEPT !.abs_e = TRUE]
    ELSE IF StartsWith(up, <<"M", "8", "3">>) THEN [s EXCEPT !.abs_e = FALSE]
    ELSE s

\* st.e = words["E"] if st.abs_e else (st.e + words["E"]), when "E" in words
TrackE(s, words) ==
    IF Has(words, "E")
    THEN (IF s.abs_e THEN words["E"] ELSE s.e + words["E"])
    ELSE s.e

---------------------------------------------------------------------------
(* Shear transform *)

\* variant of apply_skew_abs: the shear is taken about y = 0
skew_about_zero(x, y, k, yref) == <<x + y * k, y>>

apply_skew_abs(x, y, k, yref) == <<x + (y - yref) * k, y>>

---------------------------------------------------------------------------
(* Arc linearizer *)

_arc_center(s, words) ==
    IF s.ij_relative
    THEN <<s.x + Get(words, "I", 0), s.y + Get(words, "J", 0)>>
    ELSE <<Get(words, "I", 0), Get(words, "J", 0)>>

_arc_end_abs(s, words) ==
    IF s.abs_xy
    THEN <<Get(words, "X", s.x), Get(words, "Y", s.y)>>
    ELSE <<s.x + Get(words, "X", 0), s.y + Get(words, "Y", 0)>>

\* math.hypot, where its value is exact
hypot(a, b) ==
    IF a = 0 THEN Abs(b)
    ELSE IF b = 0 THEN Abs(a)
    ELSE CHOOSE r \in 0..(Abs(a) + Abs(b)) : r * r = a * a + b * b

\* math.atan2 in quarter turns, defined on the axes: a value in (-2, 2]
atan2(y, x) ==
    IF y = 0 /\ x >= 0 THEN 0
    ELSE IF y = 0 THEN 2
    ELSE IF x = 0 /\ y > 0 THEN 1
    ELSE IF x = 0 THEN -1
    ELSE Undefined

\* cos and sin of q quarter turns
cos(q) == IF q % 4 = 0 THEN 1 ELSE IF q % 4 = 2 THEN -1 ELSE 0
sin(q) == IF q % 4 = 1 THEN 1 ELSE IF q % 4 = 3 THEN -1 ELSE 0

RECURSIVE NormUp(_)
NormUp(da) == IF da <= -2 THEN NormUp(da + 4) ELSE da
RECURSIVE NormDown(_)
NormDown(da) == IF da > 2 THEN NormDown(da - 4) ELSE da

\* variant of _sweep: the shorter way round, whatever the direction asked
sweep_shorter_way(a0, a1, cw) == NormDown(NormUp(a1 - a0))

\* angles in quarter turns: pi is 2, 2 * pi is 4
_sweep(a0, a1, cw) ==
    LET da == NormDown(NormUp(a1 - a0))
    IN  IF cw
        THEN (IF da > 0 THEN da - 4 ELSE da)
        ELSE (IF da < 0 THEN da + 4 ELSE da)

\* ceil(n * (pi / 2) / d), decided by 333/106 < pi < 355/113
CeilHalfPi(n, d) ==
    LET lo == CeilDiv(333 * n, 212 * d)
        hi == CeilDiv(355 * n, 226 * d)
    IN  IF lo = hi THEN lo ELSE Undefined

\* r = 0.5 * (r0 + r1) if (r0 > 0 and r1 > 0) else max(r0, r1)
arc_radius(r0, r1) == IF r0 > 0 /\ r1 > 0 THEN Half(r0 + r1) ELSE Max2(r0, r1)

\* variant of arc_steps_len: a target of a millimetre or less disables the
\* constraint
arc_steps_len_over_1mm(r, da, chord, seg_mm) ==
    IF seg_mm > Mm(1)
    THEN (IF r > 0 THEN CeilHalfPi(Abs(da) * r, seg_mm) ELSE CeilDiv(chord, seg_mm))
    ELSE 1

\* seg_mm in model units (0 disables), max_deg in whole degrees (0 disables)
arc_steps_len(r, da, chord, seg_mm) ==
    IF seg_mm > 0
    THEN (IF r > 0 THEN CeilHalfPi(Abs(da) * r, seg_mm) ELSE CeilDiv(chord, seg_mm))
    ELSE 1

arc_steps_ang(da, max_deg) ==
    IF max_deg > 0 THEN CeilDiv(Abs(da) * 90, max_deg) ELSE 1

arc_steps(r, da, chord, seg_mm, max_deg) ==
    Max2(1, Max2(arc_steps_len(r, da, chord, seg_mm), arc_steps_ang(da, max_deg)))

\* ai = a0 + da * (i / steps), a whole number of quarter turns
arc_angle(a0, da, i, steps) ==
    IF (da * i) % steps = 0 THEN a0 + (da * i) \div steps ELSE Undefined

\* the point (cx + r * cos(ai), cy + r * sin(ai)) where ai is n / d quarter
\* turns and not a whole number of them
off_axes(c, r, n, d) == [centre |-> c, radius |-> r, quarter_turns |-> <<n, d>>]

\* (xi, yi) of the loop for i < steps
arc_point(c, r, a0, da, i, steps) ==
    IF (da * i) % steps = 0
    THEN <<c[1] + r * cos(arc_angle(a0, da, i, steps)),
           c[2] + r * sin(arc_angle(a0, da, i, steps))>>
    ELSE off_axes(c, r, a0 * steps + da * i, steps)

\* variant of arc_points: the last point is computed like the others
arc_points_computed(e1, c, r, a0, da, steps) ==
    [i \in 1..steps |-> arc_point(c, r, a0, da, i, steps)]

\* the loop that generates the points: the last one is the end point itself
arc_points(e1, c, r, a0, da, steps) ==
    [i \in 1..steps |-> IF i = steps THEN e1 ELSE arc_point(c, r, a0, da, i, steps)]

arc_sampled(e1, c, r, a0, da, chord, seg_mm, max_deg) ==
    arc_points(e1, c, r, a0, da, arc_steps(r, da, chord, seg_mm, max_deg))

arc_polar(e1, c, r0, r1, a0, a1, chord, cw, seg_mm, max_deg) ==
    arc_sampled(e1, c, arc_radius(r0, r1), a0, _sweep(a0, a1, cw), chord, seg_mm, max_deg)

arc_from(x0, y0, e1, c, cw, seg_mm, max_deg) ==
    arc_polar(e1, c,
              hypot(x0 - c[1], y0 - c[2]), hypot(e1[1] - c[1], e1[2] - c[2]),
              atan2(y0 - c[2], x0 - c[1]), atan2(e1[2] - c[2], e1[1] - c[1]),
              hypot(e1[1] - x0, e1[2] - y0), cw, seg_mm, max_deg)

linearize_arc_points(s, words, cw, seg_mm, max_deg) ==
    arc_from(s.x, s.y, _arc_end_abs(s, words), _arc_center(s, words), cw, seg_mm, max_deg)

---------------------------------------------------------------------------
(* Bounds / recenter solver *)

_in_bed(x, y, xmin, xmax, ymin, ymax) ==
    (xmin <= x /\ x <= xmax) /\ (ymin <= y /\ y <= ymax)

_is_extruding_move(s, words) ==
    IF ~Has(words, "E") THEN FALSE
    ELSE IF s.abs_e THEN words["E"] > s.e
    ELSE words["E"] > 0

\* variant of _choose_translation: no shift whatever the interval
no_shift(lo, hi, mode) == 0

\* variant of _choose_translation: clamp takes the farther endpoint
far_endpoint(lo, hi, mode) ==
    IF mode = "center" THEN Half(lo + hi)
    ELSE IF lo <= 0 /\ 0 <= hi THEN 0
    ELSE IF Abs(lo) < Abs(hi) THEN hi ELSE lo

_choose_translation(lo, hi, mode) ==
    IF mode = "center" THEN Half(lo + hi)
    ELSE IF lo <= 0 /\ 0 <= hi THEN 0
    ELSE IF Abs(lo) < Abs(hi) THEN lo ELSE hi

EmptyBox == [minx |-> Inf, maxx |-> -Inf, miny |-> Inf, maxy |-> -Inf]

\* the closure upd(x, y) of both bounds passes
upd(box, x, y) ==
    [minx |-> Min2(box.minx, x), maxx |-> Max2(box.maxx, x),
     miny |-> Min2(box.miny, y), maxy |-> Max2(box.maxy, y)]

RECURSIVE UpdAll(_, _, _)
UpdAll(box, pts, i) ==
    IF i > Len(pts) THEN box
    ELSE UpdAll(upd(box, pts[i][1], pts[i][2]), pts, i + 1)

InBedPts(pts, a) ==
    SelectSeq(pts, LAMBDA q : _in_bed(q[1], q[2], a.bed_x_min, a.bed_x_max,
                                      a.bed_y_min, a.bed_y_max))

ShearPts(pts, k, yref) ==
    [i \in DOMAIN pts |-> apply_skew_abs(pts[i][1], pts[i][2], k, yref)]

IsBlank(line) == line.cmd = <<>> /\ line.words = <<>>

IsG2(s) == s = <<"G", "2">>

\* x1 = words.get("X", st.x); y1 = words.get("Y", st.y)
move_end(t, words) == <<Get(words, "X", t.x), Get(words, "Y", t.y)>>

\* st.x, st.y = x1, y1, and st.e when the line has an E word
after_move(t, e1, words) == [t EXCEPT !.x = e1[1], !.y = e1[2], !.e = TrackE(t, words)]

\* the points of an arc that are candidates for the box
arc_candidates(t, s, words, a) ==
    IF a.linearize
    THEN linearize_arc_points(t, words, IsG2(s), a.arc_seg_mm, a.arc_max_deg)
    ELSE <<_arc_end_abs(t, words)>>

\* One iteration of the loop of compute_inbed_extruding_bounds_original.
\* acc = [st, box]; words = parse_words(code); a = the call's arguments.
bounds_original_code(acc, line, words, a) ==
    IF IsBlank(line) THEN acc
    ELSE IF IsModal(line.cmd)
    THEN [st |-> ModalUpdate(acc.st, line.cmd), box |-> acc.box]
    ELSE IF ARC_RE(line.cmd)
    THEN [st  |-> after_move(acc.st, _arc_end_abs(acc.st, words), words),
          box |-> IF _is_extruding_move(acc.st, words)
                  THEN UpdAll(acc.box,
                              InBedPts(arc_candidates(acc.st, line.cmd, words, a), a), 1)
                  ELSE acc.box]
    ELSE IF MOVE_RE(line.cmd)
    THEN [st  |-> after_move(acc.st, move_end(acc.st, words), words),
          box |-> IF _is_extruding_move(acc.st, words)
                  THEN UpdAll(acc.box, InBedPts(<<move_end(acc.st, words)>>, a), 1)
                  ELSE acc.box]
    ELSE [st |-> [acc.st EXCEPT !.e = TrackE(acc.st, words)], box |-> acc.box]

bounds_original_line(acc, line, a) ==
    bounds_original_code(acc, line, parse_words(line.words), a)

RECURSIVE ScanOriginal(_, _, _, _)
ScanOriginal(acc, lines, i, a) ==
    IF i > Len(lines) THEN acc
    ELSE ScanOriginal(bounds_original_line(acc, lines[i], a), lines, i + 1, a)

ZeroBox == [minx |-> 0, maxx |-> 0, miny |-> 0, maxy |-> 0]

\* if minx == float("inf"): return (0.0, 0.0, 0.0, 0.0)
box_or_zero(box) == IF box.minx = Inf THEN ZeroBox ELSE box

\* a: linearize, arc_seg_mm, arc_max_deg, bed_x_min, bed_x_max, bed_y_min, bed_y_max
compute_inbed_extruding_bounds_original(lines, a) ==
    box_or_zero(ScanOriginal([st |-> State0, box |-> EmptyBox], lines, 1, a).box)

\* if not st.abs_xy: raise SystemExit(... recenter requires absolute XY ...)
relative_rejected(t) == ~t.abs_xy

\* variant of accepted_sheared: the points are sheared first, and the sheared
\* ones inside the bed are kept
sheared_accepted(pts, a) == InBedPts(ShearPts(pts, a.k, a.y_ref), a)

\* if _in_bed(x1, y1, ...): xs, ys = apply_skew_abs(x1, y1, k, y_ref); upd(xs, ys)
accepted_sheared(pts, a) == ShearPts(InBedPts(pts, a), a.k, a.y_ref)

\* One iteration of the loop of compute_translation_for_bounds.
\* acc = [st, box, err]; a = the call's arguments (with k and y_ref).
\* A point is tested against the bed as it stands in the file, and what is
\* accumulated is its sheared image.
translation_code(acc, line, words, a) ==
    IF IsBlank(line) THEN acc
    ELSE IF IsModal(line.cmd)
    THEN [st |-> ModalUpdate(acc.st, line.cmd), box |-> acc.box, err |-> acc.err]
    ELSE IF relative_rejected(acc.st)
    THEN [st |-> acc.st, box |-> acc.box, err |-> "relative_xy_recenter"]
    ELSE IF ARC_RE(line.cmd)
    THEN [st  |-> after_move(acc.st, _arc_end_abs(acc.st, words), words),
          box |-> IF _is_extruding_move(acc.st, words)
                  THEN UpdAll(acc.box,
                              accepted_sheared(arc_candidates(acc.st, line.cmd, words, a), a),
                              1)
                  ELSE acc.box,
          err |-> acc.err]
    ELSE IF MOVE_RE(line.cmd)
    THEN [st  |-> after_move(acc.st, move_end(acc.st, words), words),
          box |-> IF _is_extruding_move(acc.st, words)
                  THEN UpdAll(acc.box, accepted_sheared(<<move_end(acc.st, words)>>, a), 1)
                  ELSE acc.box,
          err |-> acc.err]
    ELSE [st |-> [acc.st EXCEPT !.e = TrackE(acc.st, words)],
          box |-> acc.box, err |-> acc.err]

translation_line(acc, line, a) ==
    translation_code(acc, line, parse_words(line.words), a)

RECURSIVE ScanTranslation(_, _, _, _)
ScanTranslation(acc, lines, i, a) ==
    IF i > Len(lines) \/ acc.err # "none" THEN acc
    ELSE ScanTranslation(translation_line(acc, lines[i], a), lines, i + 1, a)

\* variant of cannot_fit: a gap of exactly eps is refused as well
cannot_fit_at_eps(dx_lo, dx_hi, dy_lo, dy_hi, eps) ==
    (dx_lo - dx_hi) >= eps \/ (dy_lo - dy_hi) >= eps

\* the feasibility test that raises "cannot fit within bed after skew"
cannot_fit(dx_lo, dx_hi, dy_lo, dy_hi, eps) ==
    (dx_lo - dx_hi) > eps \/ (dy_lo - dy_hi) > eps

\* variant of shift_interval: the margin is left out of the interval
margin_ignored(bed_min, bed_max, margin, lo_coord, hi_coord) ==
    <<bed_min - lo_coord, bed_max - hi_coord>>

\* the interval of feasible shifts of one axis, <<lo, hi>>
shift_interval(bed_min, bed_max, margin, lo_coord, hi_coord) ==
    <<(bed_min + margin) - lo_coord, (bed_max - margin) - hi_coord>>

Returned(e, ddx, ddy, box) == [err |-> e, dx |-> ddx, dy |-> ddy, box |-> box]

\* the end of compute_translation_for_bounds, from the two intervals on
solve_shifts(box, ix, iy, a) ==
    IF cannot_fit(ix[1], ix[2], iy[1], iy[2], a.eps)
    THEN Returned("cannot_fit", 0, 0, box)
    ELSE Returned("none",
                  _choose_translation(ix[1], ix[2], a.recenter_mode),
                  _choose_translation(iy[1], iy[2], a.recenter_mode),
                  box)

\* the end of compute_translation_for_bounds, from the scan's result on
solve_translation(acc, a) ==
    IF acc.err # "none" THEN Returned(acc.err, 0, 0, ZeroBox)
    ELSE IF acc.box.minx = Inf THEN Returned("none", 0, 0, ZeroBox)
    ELSE solve_shifts(acc.box,
                      shift_interval(a.bed_x_min, a.bed_x_max, a.margin,
                                     acc.box.minx, acc.box.maxx),
                      shift_interval(a.bed_y_min, a.bed_y_max, a.margin,
                                     acc.box.miny, acc.box.maxy),
                      a)

\* a: k, y_ref, linearize, arc_seg_mm, arc_max_deg, bed_*, margin, recenter_mode, eps
\* Returns [err, dx, dy, box]; err # "none" stands for the SystemExit raised.
compute_translation_for_bounds(lines, a) ==
    solve_translation(
        ScanTranslation([st |-> State0, box |-> EmptyBox, err |-> "none"], lines, 1, a), a)

---------------------------------------------------------------------------
(* Binary guard *)

\* f.read(512)
HeadLen == 512
\* head[:64]
MagicWindow == 64
\* len(b"GCDE")
MagicLen == 4

\* variant of _assert_text_gcode: the magic is looked for at the start only
guard_start_only(head) ==
    IF 0 \in head.magic THEN "binary_magic"
    ELSE IF \E o \in head.nul : o < HeadLen THEN "binary_nul"
    ELSE "none"

\* head = [magic, nul]: the offsets at which the bytes GCDE start, and the
\* offsets of the NUL bytes.  "none", or the SystemExit raised.
_assert_text_gcode(head) ==
    IF \/ 0 \in head.magic
       \/ \E o \in head.magic : o + MagicLen <= MagicWindow
    THEN "binary_magic"
    ELSE IF \E o \in head.nul : o < HeadLen
    THEN "binary_nul"
    ELSE "none"

---------------------------------------------------------------------------
(* Rewrite engine *)

\* math.tan(math.radians(skew_deg)) on the angles enumerated
tan_radians(deg) ==
    IF deg = 0 THEN 0
    ELSE IF deg = 45 THEN 1
    ELSE IF deg = -45 THEN -1
    ELSE Undefined

\* the arguments rewrite passes on to the passes over the file
PassArgs(a, k, yref) ==
    [k |-> k, y_ref |-> yref,
     linearize |-> a.linearize, arc_seg_mm |-> a.arc_seg_mm, arc_max_deg |-> a.arc_max_deg,
     bed_x_min |-> a.bed_x_min, bed_x_max |-> a.bed_x_max,
     bed_y_min |-> a.bed_y_min, bed_y_max |-> a.bed_y_max,
     margin |-> a.margin, recenter_mode |-> a.recenter_mode, eps |-> a.eps]

\* variant of choose_y_ref: auto takes the lower edge of the box
low_edge(a, box) ==
    IF a.shear_y_ref_mode = "auto" THEN box.miny ELSE a.shear_y_ref

\* y_ref as rewrite chooses it from the first pass's box
choose_y_ref(a, box) ==
    IF a.shear_y_ref_mode = "auto"
    THEN (IF box.miny # 0 \/ box.maxy # 0 THEN Half(box.miny + box.maxy) ELSE 0)
    ELSE a.shear_y_ref

\* the metadata block written first
header(a, k, yref, ddx, ddy, box) ==
    [skew_deg |-> a.skew_deg, k |-> k,
     shear_y_ref_mode |-> a.shear_y_ref_mode,
     shear_y_ref |-> RoundHalfEven(yref * Pow10(4), 8),
     xy_decimals |-> a.xy_decimals, other_decimals |-> a.other_decimals,
     linearize |-> a.linearize, recenter |-> a.recenter,
     bounds |-> IF a.recenter THEN box ELSE ZeroBox,
     dx |-> IF a.recenter THEN RoundHalfEven(ddx * Pow10(3), 8) ELSE 0,
     dy |-> IF a.recenter THEN RoundHalfEven(ddy * Pow10(3), 8) ELSE 0]

\* e_end: the E value at the end of the arc
arc_e_end(t, words) ==
    IF Has(words, "E") THEN (IF t.abs_e THEN words["E"] ELSE t.e + words["E"]) ELSE t.e

\* dE: the extrusion of the whole arc
arc_dE(t, words) ==
    IF Has(words, "E") THEN (IF t.abs_e THEN arc_e_end(t, words) - t.e ELSE words["E"]) ELSE 0

\* the E word of generated line i of n
arc_e_token(t, words, i, n, a) ==
    IF t.abs_e
    THEN (IF i = n
          THEN fmt_axis("E", arc_e_end(t, words), 1, a.xy_decimals, a.other_decimals)
          ELSE fmt_axis("E", t.e * n + arc_dE(t, words) * i, n,
                        a.xy_decimals, a.other_decimals))
    ELSE fmt_axis("E", arc_dE(t, words), n, a.xy_decimals, a.other_decimals)

\* generated line i of n, from its sheared point sh
arc_g1_at(t, words, line, sh, i, n, a, ddx, ddy) ==
    [cmd |-> <<"G", "1">>,
     words |-> <<  <<"X", fmt_axis("X", sh[1] + ddx, 1, a.xy_decimals, a.other_decimals), " ">>,
                   <<"Y", fmt_axis("Y", sh[2] + ddy, 1, a.xy_decimals, a.other_decimals), " ">>  >>
               \o (IF Has(words, "E") THEN << <<"E", arc_e_token(t, words, i, n, a), " ">> >>
                   ELSE <<>>)
               \o (IF Has(words, "F") /\ i = 1
                   THEN << <<"F", fmt_axis("F", words["F"], 1,
                                           a.xy_decimals, a.other_decimals), " ">> >>
                   ELSE <<>>),
     comment |-> IF i = 1 THEN line.comment ELSE ""]

\* generated line i of the n that replace a linearized arc
arc_g1_line(t, words, line, pts, i, a, k, yref, ddx, ddy) ==
    arc_g1_at(t, words, line, apply_skew_abs(pts[i][1], pts[i][2], k, yref),
              i, Len(pts), a, ddx, ddy)

Step(t, out, e) == [st |-> t, out |-> out, err |-> e]

\* the tracker after an arc or a move that ends at e1
after_rewritten(t, e1, words) ==
    [t EXCEPT !.x = e1[1], !.y = e1[2],
              !.e = TrackE(t, words),
              !.f = IF Has(words, "F") THEN <<words["F"]>> ELSE @]

\* variant of rewrite_arc_linearized: the arc is written as it was read
arc_kept(t, line, words, pts, a, k, yref, ddx, ddy) ==
    Step(after_rewritten(t, pts[Len(pts)], words), <<line>>, "none")

\* the branch of the loop that replaces an arc by the G1 lines of its points
rewrite_arc_linearized(t, line, words, pts, a, k, yref, ddx, ddy) ==
    Step(after_rewritten(t, pts[Len(pts)], words),
         [i \in 1..Len(pts) |-> arc_g1_line(t, words, line, pts, i, a, k, yref, ddx, ddy)],
         "none")

\* the X and Y words of a move replaced by the sheared and shifted values
rewritten_words(raw, words, sh, a, ddx, ddy) ==
    IF Has(words, "Y")
    THEN replace_or_append(
             IF Has(words, "X")
             THEN replace_or_append(raw, "X", sh[1] + ddx, a.xy_decimals, a.other_decimals)
             ELSE raw,
             "Y", sh[2] + ddy, a.xy_decimals, a.other_decimals)
    ELSE IF Has(words, "X")
    THEN replace_or_append(raw, "X", sh[1] + ddx, a.xy_decimals, a.other_decimals)
    ELSE raw

\* the tracker after a G0/G1 line
after_g01(t, words) ==
    [t EXCEPT !.x = IF Has(words, "X") THEN words["X"] ELSE @,
              !.y = IF Has(words, "Y") THEN words["Y"] ELSE @,
              !.e = TrackE(t, words),
              !.f = IF Has(words, "F") THEN <<words["F"]>> ELSE @,
              !.z = IF Has(words, "Z")
                    THEN (IF t.abs_xy THEN words["Z"] ELSE @ + words["Z"])
                    ELSE @]

\* variant of as_read: the line is not written
not_written(line) == <<>>

\* out.write(line + "\n"): the line goes out with the text it came in with
as_read(line) == <<line>>

\* the G0/G1 branch of the loop
rewrite_move(t, line, words, a, k, yref, ddx, ddy) ==
    IF (Has(words, "X") \/ Has(words, "Y")) /\ ~t.abs_xy
    THEN Step(t, <<>>, "relative_xy_skew")
    ELSE IF Has(words, "X") \/ Has(words, "Y")
    THEN Step(after_g01(t, words),
              <<[line EXCEPT !.words =
                    rewritten_words(line.words, words,
                                    apply_skew_abs(Get(words, "X", t.x), Get(words, "Y", t.y),
                                                   k, yref),
                                    a, ddx, ddy)]>>,
              "none")
    ELSE Step(after_g01(t, words), as_read(line), "none")

\* variant of recenter_relative: relative XY is let through
never_rejected(a, t) == FALSE

\* if recenter and not st.abs_xy: raise SystemExit(...)
recenter_relative(a, t) == a.recenter /\ ~t.abs_xy

\* One iteration of the loop of rewrite, words = parse_words(code)
rewrite_code(t, line, words, a, k, yref, ddx, ddy) ==
    IF IsModal(line.cmd)
    THEN Step(ModalUpdate(t, line.cmd), as_read(line), "none")
    ELSE IF recenter_relative(a, t)
    THEN Step(t, <<>>, "relative_xy_recenter")
    ELSE IF ARC_RE(line.cmd)
    THEN (IF a.linearize
          THEN rewrite_arc_linearized(t, line, words,
                                      linearize_arc_points(t, words, IsG2(line.cmd),
                                                           a.arc_seg_mm, a.arc_max_deg),
                                      a, k, yref, ddx, ddy)
          ELSE Step(after_rewritten(t, _arc_end_abs(t, words), words), as_read(line), "none"))
    ELSE IF MOVE_RE(line.cmd)
    THEN rewrite_move(t, line, words, a, k, yref, ddx, ddy)
    ELSE Step(t, as_read(line), "none")

\* One iteration of the loop of rewrite: [st, out, err], out the lines written.
\* a = rewrite's arguments; k, yref, ddx, ddy its locals.
rewrite_line(t, line, a, k, yref, ddx, ddy) ==
    rewrite_code(t, line, parse_words(line.words), a, k, yref, ddx, ddy)

NoTmp == [exists |-> FALSE, hdr |-> <<>>, lines |-> <<>>]

\* variant of finally_unlink: the temporary file is left behind
keep_tmp(t) == t

\* the finally clause: the temporary file is unlinked if it exists
finally_unlink(t) == IF t.exists THEN NoTmp ELSE t

\* os.replace(tmp, path): the target takes the temporary file's content, and
\* the temporary file is no more
os_replace(t, f) == [head |-> [magic |-> {}, nul |-> {}], hdr |-> t.hdr, lines |-> t.lines]

\* the translation rewrite and analyze_gcode use: none without recenter
translation_or_none(lines, a, k, yref) ==
    IF a.recenter
    THEN compute_translation_for_bounds(lines, PassArgs(a, k, yref))
    ELSE Returned("none", 0, 0, ZeroBox)

\* upd0 and upd1 of analyze_gcode, and its max_abs_dx, for the points pts
RECURSIVE analyze_points(_, _, _, _, _, _, _)
analyze_points(acc, pts, i, k, yref, ddx, ddy) ==
    IF i > Len(pts) THEN acc
    ELSE analyze_points(
             [acc EXCEPT
                !.pre = upd(@, pts[i][1], pts[i][2]),
                !.post = upd(@, apply_skew_abs(pts[i][1], pts[i][2], k, yref)[1] + ddx,
                                apply_skew_abs(pts[i][1], pts[i][2], k, yref)[2] + ddy),
                !.max_abs_dx =
                    Max2(@, Abs(apply_skew_abs(pts[i][1], pts[i][2], k, yref)[1] + ddx
                                - pts[i][1]))],
             pts, i + 1, k, yref, ddx, ddy)

\* a move or an arc of the analyze loop: pts its points, the last its end
analyze_motion(acc, pts, e1, words, k, yref, ddx, ddy) ==
    [analyze_points(acc, pts, 1, k, yref, ddx, ddy) EXCEPT
        !.st = after_move(acc.st, e1, words)]

analyze_arc(acc, pts, words, k, yref, ddx, ddy) ==
    analyze_motion(acc, pts, pts[Len(pts)], words, k, yref, ddx, ddy)

\* One iteration of the loop of analyze_gcode.
\* acc = [st, pre, post, max_abs_dx]; words = parse_words(code).
analyze_code(acc, line, words, a, k, yref, ddx, ddy) ==
    IF IsBlank(line) THEN acc
    ELSE IF IsModal(line.cmd) THEN [acc EXCEPT !.st = ModalUpdate(@, line.cmd)]
    ELSE IF ~acc.st.abs_xy THEN acc
    ELSE IF MOVE_RE(line.cmd)
    THEN analyze_motion(acc,
                        IF Has(words, "X") \/ Has(words, "Y")
                        THEN <<move_end(acc.st, words)>> ELSE <<>>,
                        move_end(acc.st, words), words, k, yref, ddx, ddy)
    ELSE IF ARC_RE(line.cmd)
    THEN analyze_arc(acc, arc_candidates(acc.st, line.cmd, words, a),
                     words, k, yref, ddx, ddy)
    ELSE acc

analyze_line(acc, line, a, k, yref, ddx, ddy) ==
    analyze_code(acc, line, parse_words(line.words), a, k, yref, ddx, ddy)

\* analyze_gcode from its guard's verdict g and its translation r on:
\* [err, out], out the report (its recenter part)
analyze_report(g, r, a, k, yref) ==
    IF g # "none" THEN [err |-> g, out |-> <<>>]
    ELSE IF r.err # "none" THEN [err |-> r.err, out |-> <<>>]
    ELSE [err |-> "none",
          out |-> <<[k |-> k, shear_y_ref |-> yref, recenter |-> a.recenter,
                     bounds |-> r.box, dx |-> r.dx, dy |-> r.dy]>>]

analyze_gcode(f, a, k, yref) ==
    analyze_report(_assert_text_gcode(f.head),
                   translation_or_none(f.lines, a, k, yref), a, k, yref)

K == tan_radians(p.skew_deg)

\* a hard error: SystemExit leaves rewrite
Raise(e) == err' = e /\ pc' = "failed"

GuardResult(g) ==
    IF g # "none" THEN Raise(g) ELSE err' = err /\ pc' = "y_ref"

AssertText ==
    /\ pc = "start"
    /\ GuardResult(_assert_text_gcode(file.head))
    /\ UNCHANGED <<file, file0, p, obox, y_ref, dx, dy, skew_bounds, tmp, st, idx,
                   stdout, ret>>

YRefFrom(box) ==
    /\ obox' = box
    /\ y_ref' = choose_y_ref(p, box)

ChooseYRef ==
    /\ pc = "y_ref"
    /\ YRefFrom(IF p.shear_y_ref_mode = "auto"
                THEN compute_inbed_extruding_bounds_original(file.lines, PassArgs(p, K, 0))
                ELSE obox)
    /\ pc' = "recenter"
    /\ UNCHANGED <<file, file0, p, err, dx, dy, skew_bounds, tmp, st, idx, stdout, ret>>

TranslationResult(r) ==
    IF r.err # "none"
    THEN /\ Raise(r.err)
         /\ UNCHANGED <<dx, dy, skew_bounds>>
    ELSE /\ dx' = r.dx
         /\ dy' = r.dy
         /\ skew_bounds' = r.box
         /\ pc' = "mode"
         /\ err' = err

SolveTranslation ==
    /\ pc = "recenter"
    /\ TranslationResult(translation_or_none(file.lines, p, K, y_ref))
    /\ UNCHANGED <<file, file0, p, obox, y_ref, tmp, st, idx, stdout, ret>>

AnalyzeResult(r) ==
    IF r.err # "none"
    THEN Raise(r.err) /\ UNCHANGED stdout
    ELSE stdout' = r.out /\ pc' = "done" /\ err' = err

\* variant of returns_after_report: rewrite goes on to write
goes_on(a) == FALSE

\* if analyze_only: ... return
returns_after_report(a) == a.analyze_only

\* rewrite with analyze_only prints the report and returns
Analyze ==
    /\ pc = "mode"
    /\ returns_after_report(p)
    /\ AnalyzeResult(analyze_gcode(file, p, K, y_ref))
    /\ UNCHANGED <<file, file0, p, obox, y_ref, dx, dy, skew_bounds, tmp, st, idx, ret>>

\* analyze_gcode called by itself: y_ref is its argument
CallAnalyze ==
    /\ pc = "call_analyze"
    /\ AnalyzeResult(analyze_gcode(file, p, K, y_ref))
    /\ UNCHANGED <<file, file0, p, obox, y_ref, dx, dy, skew_bounds, tmp, st, idx, ret>>

OpenTmp ==
    /\ pc = "mode"
    /\ ~returns_after_report(p)
    /\ tmp' = [exists |-> TRUE,
               hdr |-> <<header(p, K, y_ref, dx, dy, skew_bounds)>>,
               lines |-> <<>>]
    /\ pc' = "loop"
    /\ UNCHANGED <<file, file0, p, err, obox, y_ref, dx, dy, skew_bounds, st, idx,
                   stdout, ret>>

LineResult(r) ==
    IF r.err # "none"
    THEN /\ Raise(r.err)
         /\ tmp' = finally_unlink(tmp)
         /\ UNCHANGED <<st, idx>>
    ELSE /\ tmp' = [tmp EXCEPT !.lines = @ \o r.out]
         /\ st' = r.st
         /\ idx' = idx + 1
         /\ UNCHANGED <<err, pc>>

RewriteLine ==
    /\ pc = "loop"
    /\ idx < Len(file.lines)
    /\ LineResult(rewrite_line(st, file.lines[idx + 1], p, K, y_ref, dx, dy))
    /\ UNCHANGED <<file, file0, p, obox, y_ref, dx, dy, skew_bounds, stdout, ret>>

Replace ==
    /\ pc = "loop"
    /\ idx = Len(file.lines)
    /\ file' = os_replace(tmp, file)
    /\ tmp' = finally_unlink(NoTmp)
    /\ pc' = "done"
    /\ UNCHANGED <<file0, p, err, obox, y_ref, dx, dy, skew_bounds, st, idx, stdout, ret>>

Next == AssertText \/ ChooseYRef \/ SolveTranslation \/ Analyze \/ OpenTmp
            \/ RewriteLine \/ Replace \/ CallAnalyze

---------------------------------------------------------------------------
(* Direct calls of the two bounds functions *)

CallBoundsOriginal ==
    /\ pc = "call"
    /\ obox' = compute_inbed_extruding_bounds_original(file.lines, p)
    /\ pc' = "returned_original"
    /\ UNCHANGED <<file, file0, p, err, y_ref, dx, dy, skew_bounds, tmp, st, idx, stdout, ret>>

TranslationReturned(r) ==
    /\ err' = r.err
    /\ dx' = r.dx
    /\ dy' = r.dy
    /\ skew_bounds' = r.box

CallTranslation ==
    /\ pc = "call"
    /\ TranslationReturned(compute_translation_for_bounds(file.lines, p))
    /\ pc' = "returned_translation"
    /\ UNCHANGED <<file, file0, p, obox, y_ref, tmp, st, idx, stdout, ret>>

NextBounds == CallBoundsOriginal \/ CallTranslation

---------------------------------------------------------------------------
(* Direct calls of linearize_arc_points, apply_skew_abs and _sweep, and one
   iteration of the loop of each of the four passes *)

\* p = [words, cw, seg_mm, max_deg], st the tracker passed
CallLinearize ==
    /\ pc = "call_linearize"
    /\ ret' = linearize_arc_points(st, p.words, p.cw, p.seg_mm, p.max_deg)
    /\ pc' = "returned_linearize"
    /\ UNCHANGED <<file, file0, p, err, obox, y_ref, dx, dy, skew_bounds, tmp, st, idx,
                   stdout>>

\* p = [x, y, k, y_ref]
CallSkew ==
    /\ pc = "call_skew"
    /\ ret' = apply_skew_abs(p.x, p.y, p.k, p.y_ref)
    /\ pc' = "returned_skew"
    /\ UNCHANGED <<file, file0, p, err, obox, y_ref, dx, dy, skew_bounds, tmp, st, idx,
                   stdout>>

\* p = [a0, a1, cw]
CallSweep ==
    /\ pc = "call_sweep"
    /\ ret' = _sweep(p.a0, p.a1, p.cw)
    /\ pc' = "returned_sweep"
    /\ UNCHANGED <<file, file0, p, err, obox, y_ref, dx, dy, skew_bounds, tmp, st, idx,
                   stdout>>

Stepped(t, r, pass) ==
    /\ st' = t
    /\ ret' = r
    /\ pc' = pass

\* p = [line, a], a the arguments of rewrite; st the tracker before the line
StepArgs == PassArgs(p.a, tan_radians(p.a.skew_deg), p.a.shear_y_ref)

StepOriginalResult(r) == Stepped(r.st, r.box, "stepped_original")

StepOriginal ==
    /\ pc = "call_step"
    /\ StepOriginalResult(bounds_original_line([st |-> st, box |-> EmptyBox], p.line, StepArgs))
    /\ UNCHANGED <<file, file0, p, err, obox, y_ref, dx, dy, skew_bounds, tmp, idx, stdout>>

StepTranslationResult(r) == Stepped(r.st, [box |-> r.box, err |-> r.err], "stepped_translation")

StepTranslation ==
    /\ pc = "call_step"
    /\ StepTranslationResult(translation_line([st |-> st, box |-> EmptyBox, err |-> "none"],
                                              p.line, StepArgs))
    /\ UNCHANGED <<file, file0, p, err, obox, y_ref, dx, dy, skew_bounds, tmp, idx, stdout>>

StepAnalyzeResult(r) ==
    Stepped(r.st, [pre |-> r.pre, post |-> r.post, max_abs_dx |-> r.max_abs_dx],
            "stepped_analyze")

StepAnalyze ==
    /\ pc = "call_step"
    /\ StepAnalyzeResult(analyze_line([st |-> st, pre |-> EmptyBox, post |-> EmptyBox,
                                       max_abs_dx |-> 0],
                                      p.line, p.a, tan_radians(p.a.skew_deg),
                                      p.a.shear_y_ref, 0, 0))
    /\ UNCHANGED <<file, file0, p, err, obox, y_ref, dx, dy, skew_bounds, tmp, idx, stdout>>

StepRewriteResult(r) == Stepped(r.st, [out |-> r.out, err |-> r.err], "stepped_rewrite")

StepRewrite ==
    /\ pc = "call_step"
    /\ StepRewriteResult(rewrite_line(st, p.line, p.a, tan_radians(p.a.skew_deg),
                                      p.a.shear_y_ref, 0, 0))
    /\ UNCHANGED <<file, file0, p, err, obox, y_ref, dx, dy, skew_bounds, tmp, idx, stdout>>

NextCalls == CallLinearize \/ CallSkew \/ CallSweep \/ StepOriginal \/ StepTranslation
                \/ StepAnalyze \/ StepRewrite

---------------------------------------------------------------------------
(* Inputs *)

\* longest document enumerated for rewrite
MaxLen == 2
\* longest document enumerated for the direct calls
MaxLenBounds == 2

W(letter, n) == <<letter, <<n, 0>>, " ">>
L(cmd, words) == [cmd |-> cmd, words |-> words, comment |-> ""]

G90 == L(<<"G", "9", "0">>, <<>>)
G91 == L(<<"G", "9", "1">>, <<>>)
G90_1 == L(<<"G", "9", "0", ".", "1">>, <<>>)
G91_1 == L(<<"G", "9", "1", ".", "1">>, <<>>)
M82 == L(<<"M", "8", "2">>, <<>>)
M83 == L(<<"M", "8", "3">>, <<>>)
CommentOnly == [cmd |-> <<>>, words |-> <<>>, comment |-> "; note"]
G92E0 == L(<<"G", "9", "2">>, <<W("E", 0)>>)
G1(words) == L(<<"G", "1">>, words)
G2(words) == L(<<"G", "2">>, words)

\* The arc G2 X2 I1 has no Y word and no J word: its start, centre and end lie
\* on one horizontal line from whatever position it starts, so that all its
\* angles are whole quarter turns.
RewriteLines ==
    { G90, G91, CommentOnly, G92E0,
      G1(<<W("X", 1), W("Y", 1), W("E", 1)>>),
      G1(<<W("X", 3), W("Y", 3), W("E", 2)>>),
      G1(<<W("Y", 2)>>),
      G2(<<W("X", 2), W("I", 1), W("E", 3)>>) }

SeqsUpTo(S, n) == UNION {[1..m -> S] : m \in 0..n}

TextHead == [magic |-> {}, nul |-> {}]

Heads == {[magic |-> m, nul |-> n] : m \in {{}, {0}, {60}, {61}},
                                     n \in {{}, {7}, {511}, {512}}}

TextFile(lines) == [head |-> TextHead, hdr |-> <<>>, lines |-> lines]

RewriteArgs ==
    { [skew_deg |-> sk, linearize |-> lin, arc_seg_mm |-> 0, arc_max_deg |-> 90,
       recenter |-> rc[1], recenter_mode |-> rc[2], eps |-> rc[3][1], margin |-> rc[3][2],
       bed_x_min |-> 0, bed_x_max |-> Mm(3), bed_y_min |-> 0, bed_y_max |-> Mm(3),
       shear_y_ref_mode |-> yr[1], shear_y_ref |-> yr[2],
       xy_decimals |-> 3, other_decimals |-> 5, analyze_only |-> an] :
      sk \in {0, 45}, lin \in BOOLEAN, an \in BOOLEAN,
      rc \in {<<FALSE, "center", <<0, 0>>>>}
                \cup ({TRUE} \X {"center", "clamp"}
                            \X {<<0, 0>>, <<Mm(1), 0>>, <<0, Mm(1)>>}),
      yr \in {<<"auto", 0>>, <<"fixed", Mm(2)>>} }

InitVars(f, a, start) ==
    /\ file = f
    /\ file0 = f
    /\ p = a
    /\ pc = start
    /\ err = "none"
    /\ obox = ZeroBox
    /\ y_ref = IF start = "call_analyze" THEN a.shear_y_ref ELSE 0
    /\ dx = 0
    /\ dy = 0
    /\ skew_bounds = ZeroBox
    /\ tmp = NoTmp
    /\ st = State0
    /\ idx = 0
    /\ stdout = <<>>
    /\ ret = <<>>

BinaryDocs == SeqsUpTo({G90, G1(<<W("X", 1), W("Y", 1), W("E", 1)>>)}, 1)

BinaryFiles == {[head |-> h, hdr |-> <<>>, lines |-> d] : h \in Heads, d \in BinaryDocs}

\* documents with an arc that follows an extruding move and a line that
\* resets the E position, switches to relative extrusion, or does neither
ExtrusionDocs ==
    { <<G1(<<W("X", 1), W("Y", 1), W("E", 1)>>), l, G2(<<W("X", 2), W("I", 1), W("E", 3)>>)>> :
      l \in {G92E0, M83, CommentOnly} }

\* rewrite called on a text file, or on a file with a magic or NUL bytes
RewriteCalls ==
    { <<TextFile(d), a, "start">> :
        d \in SeqsUpTo(RewriteLines, MaxLen) \cup ExtrusionDocs, a \in RewriteArgs }
    \cup
    { <<f, a, "start">> :
        f \in BinaryFiles,
        a \in {b \in RewriteArgs : b.skew_deg = 45 /\ b.linearize /\ b.eps = 0
                                   /\ b.shear_y_ref_mode = "auto"} }

\* analyze_gcode called on the same files
AnalyzeCalls ==
    { <<f, a, "call_analyze">> :
        f \in BinaryFiles \cup {TextFile(d) : d \in SeqsUpTo(RewriteLines, MaxLen)},
        a \in {b \in RewriteArgs : b.skew_deg = 45 /\ b.analyze_only /\ b.eps = 0
                                   /\ b.shear_y_ref_mode = "fixed"} }

Init == \E c \in RewriteCalls \cup AnalyzeCalls : InitVars(c[1], c[2], c[3])

Spec == Init /\ [][Next]_vars

BoundsLines ==
    { G91, G92E0,
      G1(<<W("X", 1), W("Y", 1), W("E", 1)>>),
      G1(<<W("X", 3), W("Y", 2), W("E", 2)>>),
      G1(<<W("X", 5), W("Y", 1), W("E", 3)>>),
      G1(<<W("X", 2), W("Y", 3)>>),
      G2(<<W("X", 2), W("I", 1), W("E", 4)>>) }

Beds == { <<0, Mm(4), 0, Mm(3)>>, <<Mm(1), Mm(3), Mm(1), Mm(2)>> }

BoundsArgs ==
    { [k |-> k, y_ref |-> yr, linearize |-> lin, arc_seg_mm |-> 0, arc_max_deg |-> 90,
       bed_x_min |-> b[1], bed_x_max |-> b[2], bed_y_min |-> b[3], bed_y_max |-> b[4],
       margin |-> m, recenter_mode |-> mode, eps |-> eps] :
      k \in {0, 1}, yr \in {0, Mm(2)}, lin \in BOOLEAN, b \in Beds,
      m \in {0, Mm(1)}, mode \in {"center", "clamp"}, eps \in {0, Mm(1)} }

\* documents that go relative after a travel move away from the origin
RelativeDocs ==
    { <<G1(<<W("X", 2), W("Y", 3)>>), G91>> \o d : d \in SeqsUpTo(BoundsLines, MaxLenBounds - 1) }

\* documents whose first move extrudes to the origin, alone or followed by a
\* line that adds no point inside the bed
OriginDocs ==
    { <<G1(<<W("X", 0), W("Y", 0), W("E", 1)>>)>> \o d :
      d \in SeqsUpTo({G92E0, G1(<<W("X", 2), W("Y", 3)>>),
                      G1(<<W("X", 5), W("Y", 4), W("E", 3)>>)}, 1) }

\* the same arguments with a bed that has the origin at its centre
OriginArgs ==
    { [a EXCEPT !.bed_x_min = 0 - Mm(2), !.bed_x_max = Mm(2),
                !.bed_y_min = 0 - Mm(1), !.bed_y_max = Mm(1)] : a \in BoundsArgs }

InitBounds ==
    \/ \E d \in SeqsUpTo(BoundsLines, MaxLenBounds) \cup RelativeDocs, a \in BoundsArgs :
          InitVars(TextFile(d), a, "call")
    \/ \E d \in OriginDocs \cup {<<>>}, a \in BoundsArgs \cup OriginArgs :
          InitVars(TextFile(d), a, "call")

SpecBounds == InitBounds /\ [][NextBounds]_vars

---------------------------------------------------------------------------
(* Properties *)

\* Inputs of rewrite that vary the text of the words: decimals, words that
\* follow one another without whitespace, and the number of places printed.

\* longest document enumerated for these
MaxLenText == 2

\* the word letter m.d followed by sep, d decimals after the point
Wt(letter, m, d, sep) == <<letter, <<m, d>>, sep>>

TextLines ==
    { \* G1 X10 Y20 E1
      G1(<<W("X", 10), W("Y", 20), W("E", 1)>>),
      \* G1 X10Y20 E1
      G1(<<Wt("X", 10, 0, ""), W("Y", 20), W("E", 1)>>),
      \* G1 X1.5Y2.5 E1
      G1(<<Wt("X", 15, 1, ""), Wt("Y", 25, 1, " "), W("E", 1)>>),
      \* G1 X0.125 Y0.25 E2 F1800
      G1(<<Wt("X", 125, 3, " "), Wt("Y", 25, 2, " "), W("E", 2), W("F", 1800)>>),
      \* G1 Z1 Y2
      G1(<<W("Z", 1), W("Y", 2)>>),
      \* G1 E1 X1
      G1(<<W("E", 1), W("X", 1)>>) }

TextArgs ==
    { [skew_deg |-> sk, linearize |-> FALSE, arc_seg_mm |-> 0, arc_max_deg |-> 90,
       recenter |-> FALSE, recenter_mode |-> "center", eps |-> 0, margin |-> 0,
       bed_x_min |-> 0, bed_x_max |-> Mm(30), bed_y_min |-> 0, bed_y_max |-> Mm(30),
       shear_y_ref_mode |-> yr[1], shear_y_ref |-> yr[2],
       xy_decimals |-> places, other_decimals |-> 5, analyze_only |-> an] :
      sk \in {0, 45}, an \in BOOLEAN, places \in {0, 1, 3},
      yr \in {<<"auto", 0>>, <<"fixed", 0>>, <<"fixed", Mm(2)>>} }

InitText ==
    \E d \in SeqsUpTo(TextLines, MaxLenText), a \in TextArgs :
        \/ InitVars(TextFile(d), a, "start")
        \/ /\ a.analyze_only
           /\ a.shear_y_ref_mode = "fixed"
           /\ InitVars(TextFile(d), a, "call_analyze")

SpecText == InitText /\ [][Next]_vars

\* Inputs of the direct calls of linearize_arc_points, apply_skew_abs, _sweep
\* and the loop bodies.

InitCall(a, t, start) ==
    /\ file = TextFile(<<>>)
    /\ file0 = TextFile(<<>>)
    /\ p = a
    /\ pc = start
    /\ err = "none"
    /\ obox = ZeroBox
    /\ y_ref = 0
    /\ dx = 0
    /\ dy = 0
    /\ skew_bounds = ZeroBox
    /\ tmp = NoTmp
    /\ st = t
    /\ idx = 0
    /\ stdout = <<>>
    /\ ret = <<>>

Trackers ==
    { [abs_xy |-> ax, abs_e |-> ae, ij_relative |-> ij,
       x |-> x, y |-> y, z |-> 0, e |-> e, f |-> <<>>] :
      ax \in BOOLEAN, ae \in BOOLEAN, ij \in BOOLEAN,
      x \in {0, Mm(1)}, y \in {0, Mm(1)}, e \in {0, Mm(1)} }

\* the words of an arc: each of X, Y, I, J absent or present
OptWord(letter, values) == {<<>>} \cup {<<W(letter, v)>> : v \in values}

ArcWords ==
    { x \o y \o i \o j :
      x \in OptWord("X", {0, 1, 2}), y \in OptWord("Y", {0, 1, 2}),
      i \in OptWord("I", {-1, 1}), j \in OptWord("J", {-1, 1}) }

\* targets of the chord length (model units) and of the angular step
\* (degrees); zero and negative targets disable the constraint
SegTargets == {0 - Mm(1), 0, Mm(1), Mm(2), Mm(4)}
DegTargets == {0 - 90, 0, 45, 90, 180}

\* the start and the end of the arc lie on the axes through its centre, where
\* hypot and atan2 are exact
OnAxes(t, words) ==
    /\ t.x = _arc_center(t, words)[1] \/ t.y = _arc_center(t, words)[2]
    /\ \/ _arc_end_abs(t, words)[1] = _arc_center(t, words)[1]
       \/ _arc_end_abs(t, words)[2] = _arc_center(t, words)[2]

LinearizeCalls ==
    { <<[words |-> parse_words(w), cw |-> cw, seg_mm |-> seg, max_deg |-> deg], t>> :
      w \in ArcWords, cw \in BOOLEAN, seg \in SegTargets, deg \in DegTargets,
      t \in {u \in Trackers : u.e = 0 /\ u.abs_e} }

SkewCalls ==
    { [x |-> x, y |-> y, k |-> k, y_ref |-> yr] :
      x \in {0 - Mm(1), 0, Mm(2)}, y \in {0 - Mm(1), 0, Mm(1), Mm(3)},
      k \in {-2, -1, 0, 1, 2}, yr \in {0 - Mm(1), 0, Mm(1), Mm(2)} }

\* start and end angles in quarter turns, within and beyond the range of atan2
SweepCalls ==
    { [a0 |-> a0, a1 |-> a1, cw |-> cw] : a0 \in -6..6, a1 \in -6..6, cw \in BOOLEAN }

StepLines ==
    { G90, G91, G90_1, G91_1, M82, M83, CommentOnly, G92E0,
      G1(<<W("X", 1), W("Y", 2), W("E", 1)>>),
      G2(<<W("X", 2), W("I", 1), W("E", 3)>>) }

StepCalls ==
    { [line |-> l, a |-> a] :
      l \in StepLines,
      a \in {b \in RewriteArgs : /\ b.skew_deg = 45 /\ b.linearize /\ ~b.analyze_only
                                  /\ b.shear_y_ref_mode = "fixed" /\ b.eps = 0
                                  /\ b.margin = 0 /\ b.recenter_mode = "center"} }

InitCalls ==
    \/ \E c \in LinearizeCalls : OnAxes(c[2], c[1].words) /\ InitCall(c[1], c[2], "call_linearize")
    \/ \E c \in SkewCalls : InitCall(c, State0, "call_skew")
    \/ \E c \in SweepCalls : InitCall(c, State0, "call_sweep")
    \/ \E c \in StepCalls, t \in Trackers :
          /\ ARC_RE(c.line.cmd) => OnAxes(t, parse_words(c.line.words))
          /\ InitCall(c, t, "call_step")

SpecCalls == InitCalls /\ [][NextCalls]_vars

\* longest shrink of one side of the bed, in half millimetres
MaxShrink == 2

ScanStart == [st |-> State0, box |-> EmptyBox, err |-> "none"]

\* the post-shear box the translation pass accumulates for the call at hand
SolvedBox == ScanTranslation(ScanStart, file0.lines, 1, p).box

\* the interval of feasible shifts per axis for a box b and arguments a
LoX(b, a) == (a.bed_x_min + a.margin) - b.minx
HiX(b, a) == (a.bed_x_max - a.margin) - b.maxx
LoY(b, a) == (a.bed_y_min + a.margin) - b.miny
HiY(b, a) == (a.bed_y_max - a.margin) - b.maxy

\* C1: a run of rewrite that has ended in a hard error has left the target
\* file's content as it was before the run and no temporary file behind; the
\* target's content differs from the original only once every input line has
\* been processed without error.
C1_Transactional ==
    /\ pc = "failed" => (file = file0 /\ ~tmp.exists)
    /\ file # file0 => (pc = "done" /\ idx = Len(file0.lines) /\ err = "none"
                        /\ ~tmp.exists)

\* a hard error raised in the middle of writing, after a line was written
C1_Witness ==
    /\ pc = "failed"
    /\ ~p.analyze_only
    /\ err = "relative_xy_skew"
    /\ idx >= 1

\* the magic at the start or wholly inside the first 64 bytes, or a NUL byte
\* within the first 512 bytes
IsBinaryHead(h) ==
    \/ \E o \in h.magic : o = 0 \/ o + 4 <= 64
    \/ \E o \in h.nul : o < 512

\* C2: on a file with the magic GCDE at its start or within its first 64
\* bytes, or with a NUL byte within its first 512 bytes, rewrite and
\* analyze_gcode can only end in the binary error: no bounds pass has run, no
\* temporary file was created, nothing was printed or written, and the file
\* is as it was.
C2_BinaryGuard ==
    IsBinaryHead(file0.head) =>
        /\ pc \in {"start", "call_analyze", "failed"}
        /\ pc = "failed" => err \in {"binary_magic", "binary_nul"}
        /\ file = file0
        /\ tmp = NoTmp
        /\ idx = 0
        /\ obox = ZeroBox
        /\ skew_bounds = ZeroBox
        /\ dx = 0 /\ dy = 0
        /\ stdout = <<>>

\* the magic is not at the start but ends exactly at byte 64
C2_Witness ==
    /\ pc = "failed"
    /\ err = "binary_magic"
    /\ file0.head.magic = {60}

\* C3: when compute_translation_for_bounds returns for a document with at
\* least one in-bed extruding point, the post-shear box moved by (dx, dy) lies
\* within the bed shrunk by the margin, up to eps on each side, on both axes
\* and for both policies.
C3_FitsBed ==
    (pc = "returned_translation" /\ err = "none" /\ SolvedBox.minx # Inf) =>
        /\ p.bed_x_min + p.margin - p.eps <= skew_bounds.minx + dx
        /\ skew_bounds.maxx + dx <= p.bed_x_max - p.margin + p.eps
        /\ p.bed_y_min + p.margin - p.eps <= skew_bounds.miny + dy
        /\ skew_bounds.maxy + dy <= p.bed_y_max - p.margin + p.eps

\* a success that needs the tolerance: the box is wider than the usable bed
C3_Witness ==
    /\ pc = "returned_translation"
    /\ err = "none"
    /\ SolvedBox.minx # Inf
    /\ skew_bounds = SolvedBox
    /\ LoX(skew_bounds, p) > HiX(skew_bounds, p)
    /\ dx # 0

\* C4: with a shear requested, while the tracker is in relative-XY mode the
\* rewrite pass writes no line with a shear-transformed X or Y value: the line
\* last written is the input line last read, as it stands in the input.
C4_NoShearInRelative ==
    (pc = "loop" /\ idx > 0 /\ ~st.abs_xy /\ p.skew_deg # 0) =>
        /\ tmp.lines # <<>>
        /\ tmp.lines[Len(tmp.lines)] = file.lines[idx]

IsG90(line) ==
    StartsWith(line.cmd, <<"G", "9", "0">>) /\ ~StartsWith(line.cmd, <<"G", "9", "0", ".", "1">>)

IsG91(line) ==
    StartsWith(line.cmd, <<"G", "9", "1">>) /\ ~StartsWith(line.cmd, <<"G", "9", "1", ".", "1">>)

\* line i is read in relative-XY mode: a G91 precedes it with no G90 between
RelativeAt(lines, i) ==
    \E j \in 1..(i - 1) :
        /\ IsG91(lines[j])
        /\ \A m \in (j + 1)..(i - 1) : ~IsG90(lines[m])

\* line i is one the relative-mode check is made on: a line that sets no
\* mode, and in a run that only analyzes, one with code on it
CheckedAt(lines, i) ==
    /\ ~IsModal(lines[i].cmd)
    /\ (p.analyze_only => ~IsBlank(lines[i]))

RunScan == ScanTranslation(ScanStart, file0.lines, 1, PassArgs(p, K, y_ref))

\* C6: on a document whose post-shear box is not empty the translation solve
\* fails exactly when lo - hi > eps on the X axis or on the Y axis, with
\* lo = bedMin + margin - minCoord and hi = bedMax - margin - maxCoord; when it
\* fails in rewrite no temporary file has been created and nothing is written.
C6_FailsExactly ==
    (/\ p.recenter
     /\ pc \in {"mode", "loop", "done", "failed"}
     /\ ~IsBinaryHead(file0.head)
     /\ RunScan.err = "none"
     /\ RunScan.box.minx # Inf)
    =>
        /\ err = "cannot_fit"
             <=> \/ LoX(RunScan.box, p) - HiX(RunScan.box, p) > p.eps
                 \/ LoY(RunScan.box, p) - HiY(RunScan.box, p) > p.eps
        /\ err = "cannot_fit" =>
             /\ pc = "failed"
             /\ tmp = NoTmp
             /\ idx = 0
             /\ st = State0
             /\ file = file0
             /\ stdout = <<>>

\* rewrite fails because the box exceeds the usable bed on X by more than eps
C6_Witness ==
    /\ pc = "failed"
    /\ err = "cannot_fit"
    /\ ~p.analyze_only
    /\ LoX(RunScan.box, p) - HiX(RunScan.box, p) > p.eps

\* the shift d is the one the policy picks from [lo, hi]
PolicyShift(lo, hi, mode, d) ==
    IF mode = "center" THEN 2 * d = lo + hi
    ELSE /\ (lo <= 0 /\ 0 <= hi) => d = 0
         /\ ~(lo <= 0 /\ 0 <= hi) =>
                /\ d \in {lo, hi}
                /\ Abs(d) <= Abs(lo)
                /\ Abs(d) <= Abs(hi)
         /\ lo <= hi => \A v \in lo..hi : Abs(d) <= Abs(v)

\* C7: on a successful recenter the shift of each axis is the midpoint of
\* [lo, hi] under center; under clamp it is zero when lo <= 0 <= hi and else
\* the endpoint of smaller absolute value, so that with lo <= hi no value of
\* the interval has a smaller magnitude.
C7_PolicyShift ==
    (pc = "returned_translation" /\ err = "none" /\ SolvedBox.minx # Inf) =>
        /\ PolicyShift(LoX(SolvedBox, p), HiX(SolvedBox, p), p.recenter_mode, dx)
        /\ PolicyShift(LoY(SolvedBox, p), HiY(SolvedBox, p), p.recenter_mode, dy)

\* clamp with zero outside a proper interval: the nearer endpoint is taken
C7_Witness ==
    /\ pc = "returned_translation"
    /\ err = "none"
    /\ p.recenter_mode = "clamp"
    /\ SolvedBox.minx # Inf
    /\ LoX(SolvedBox, p) < HiX(SolvedBox, p)
    /\ HiX(SolvedBox, p) < 0
    /\ dx = HiX(SolvedBox, p)

\* the bed of a with its four sides moved inwards by s, in half millimetres
Shrunk(a, s) ==
    [a EXCEPT !.bed_x_min = @ + s[1] * Half(Mm(1)), !.bed_x_max = @ - s[2] * Half(Mm(1)),
              !.bed_y_min = @ + s[3] * Half(Mm(1)), !.bed_y_max = @ - s[4] * Half(Mm(1))]

Shrinks == (0..MaxShrink) \X (0..MaxShrink) \X (0..MaxShrink) \X (0..MaxShrink)

\* the bed is shrunk by more than eps along X or along Y
ShrunkBeyondEps(s, eps) ==
    \/ (s[1] + s[2]) * Half(Mm(1)) > eps
    \/ (s[3] + s[4]) * Half(Mm(1)) > eps

\* the post-shear box is the bed rectangle minus the margin
ExactFit ==
    /\ pc = "returned_translation"
    /\ SolvedBox.minx # Inf
    /\ LoX(SolvedBox, p) = 0 /\ HiX(SolvedBox, p) = 0
    /\ LoY(SolvedBox, p) = 0 /\ HiY(SolvedBox, p) = 0

\* the shrunk bed admits the same points: the post-shear box is the same
SameBox(s) ==
    ScanTranslation(ScanStart, file0.lines, 1, Shrunk(p, s)).box = SolvedBox

\* C8 as stated: when the post-shear box exactly fits the bed minus the
\* margin, the call succeeds, with shift (0, 0) under clamp, and on the same
\* document every bed shrunk by more than eps makes the call fail.
C8_AnyShrinkFails ==
    ExactFit =>
        /\ err = "none"
        /\ p.recenter_mode = "clamp" => (dx = 0 /\ dy = 0)
        /\ \A s \in Shrinks :
              ShrunkBeyondEps(s, p.eps) =>
                  compute_translation_for_bounds(file0.lines, Shrunk(p, s)).err = "cannot_fit"

\* C8, amended: when the post-shear box exactly fits the bed minus the margin
\* (eps >= 0), the call succeeds, with shift (0, 0) under clamp; on the same
\* document a bed shrunk by more than eps along an axis makes the call fail
\* provided the shrunk bed still admits the same in-bed extruding points, the
\* post-shear box being unchanged.
C8_ShrinkFailsSameBox ==
    ExactFit =>
        /\ err = "none"
        /\ p.recenter_mode = "clamp" => (dx = 0 /\ dy = 0)
        /\ \A s \in Shrinks :
              (ShrunkBeyondEps(s, p.eps) /\ SameBox(s)) =>
                  compute_translation_for_bounds(file0.lines, Shrunk(p, s)).err = "cannot_fit"

\* an exact fit under clamp of which some shrunk bed keeps all the points
C8_Witness ==
    /\ ExactFit
    /\ p.recenter_mode = "clamp"
    /\ err = "none" /\ dx = 0 /\ dy = 0
    /\ \E s \in Shrinks : ShrunkBeyondEps(s, p.eps) /\ SameBox(s)

\* the endpoint of a move by the modal rule: the word, or the last position,
\* under G90; the last position plus the word (0 if absent) under G91
ResolvedEnd(t, words) ==
    IF t.abs_xy
    THEN <<Get(words, "X", t.x), Get(words, "Y", t.y)>>
    ELSE <<t.x + Get(words, "X", 0), t.y + Get(words, "Y", 0)>>

\* the box of the in-bed endpoints of the extruding G0/G1/G2/G3 lines
RECURSIVE EndpointBox(_, _, _, _, _)
EndpointBox(box, t, lines, i, a) ==
    IF i > Len(lines) THEN box
    ELSE LET line  == lines[i]
             words == parse_words(line.words)
             e1    == ResolvedEnd(t, words)
         IN  IF IsModal(line.cmd)
             THEN EndpointBox(box, ModalUpdate(t, line.cmd), lines, i + 1, a)
             ELSE IF MOVE_RE(line.cmd) \/ ARC_RE(line.cmd)
             THEN EndpointBox(
                      IF /\ _is_extruding_move(t, words)
                         /\ a.bed_x_min <= e1[1] /\ e1[1] <= a.bed_x_max
                         /\ a.bed_y_min <= e1[2] /\ e1[2] <= a.bed_y_max
                      THEN upd(box, e1[1], e1[2]) ELSE box,
                      [t EXCEPT !.x = e1[1], !.y = e1[2], !.e = TrackE(t, words)],
                      lines, i + 1, a)
             ELSE EndpointBox(box, [t EXCEPT !.e = TrackE(t, words)], lines, i + 1, a)

\* C9: the box compute_inbed_extruding_bounds_original returns is the box of
\* exactly the endpoints of the extruding moves whose endpoint passes the
\* inclusive bed test ((0,0,0,0) when there is none), with linearization
\* enabled or not.
C9_OnlyEndpoints ==
    pc = "returned_original" =>
        obox = box_or_zero(EndpointBox(EmptyBox, State0, file0.lines, 1, p))

\* the lines rewrite emits for lines i..n when it shears about yr
RECURSIVE Emitted(_, _, _, _, _)
Emitted(t, lines, i, n, yr) ==
    IF i > n THEN <<>>
    ELSE LET r == rewrite_line(t, lines[i], p, K, yr, dx, dy)
         IN  r.out \o Emitted(r.st, lines, i + 1, n, yr)

\* (minY + maxY) / 2 of the first pass's box under auto, else the caller's value
ClaimedYRef ==
    IF p.shear_y_ref_mode = "auto"
    THEN Half(compute_inbed_extruding_bounds_original(file0.lines, PassArgs(p, K, 0)).miny
              + compute_inbed_extruding_bounds_original(file0.lines, PassArgs(p, K, 0)).maxy)
    ELSE p.shear_y_ref

\* what rewrite has written so far: the temporary file, or the file it became
Written == IF pc = "done" THEN file ELSE tmp

\* C10: the shear reference the header reports, and about which every line
\* written so far was sheared, is under auto (minY + maxY) / 2 of the original
\* in-bed extruding bounds of the first pass and under fixed the value the
\* caller gave.
C10_YRef ==
    (pc \in {"loop", "done"} /\ ~p.analyze_only /\ stdout = <<>>) =>
        /\ Written.hdr[1].shear_y_ref * 8 = ClaimedYRef * Pow10(4)
        /\ Written.lines = Emitted(State0, file0.lines, 1, idx, ClaimedYRef)

\* auto on a document whose extruding moves span several Y values, sheared
C10_Witness ==
    /\ pc = "done"
    /\ ~p.analyze_only
    /\ stdout = <<>>
    /\ p.shear_y_ref_mode = "auto"
    /\ p.skew_deg = 45
    /\ obox.miny < obox.maxy
    /\ y_ref = Half(obox.miny + obox.maxy)
    /\ file.lines # file0.lines

---------------------------------------------------------------------------
(* Arcs under linearization *)

\* the loop of rewrite reads an arc while XY is absolute
ReadsArcAbsolute ==
    /\ pc = "loop"
    /\ idx < Len(file.lines)
    /\ ARC_RE(file.lines[idx + 1].cmd)
    /\ st.abs_xy

ArcPoints ==
    linearize_arc_points(st, parse_words(file.lines[idx + 1].words),
                         IsG2(file.lines[idx + 1].cmd), p.arc_seg_mm, p.arc_max_deg)

\* C11: with linearization enabled, an arc read while XY is absolute adds to
\* the output exactly as many lines as linearize_arc_points returns points for
\* the tracker at that line, at least one, all of them G1 lines after the lines
\* written before; and no line of the output is a G2 or G3 command.
C11_ArcReplaced ==
    /\ [](p.linearize /\ ~p.analyze_only => \A i \in DOMAIN Written.lines : ~ARC_RE(Written.lines[i].cmd))
    /\ [][(p.linearize /\ ReadsArcAbsolute /\ idx' = idx + 1) =>
             /\ Len(ArcPoints) >= 1
             /\ Len(tmp'.lines) = Len(tmp.lines) + Len(ArcPoints)
             /\ SubSeq(tmp'.lines, 1, Len(tmp.lines)) = tmp.lines
             /\ \A i \in (Len(tmp.lines) + 1)..Len(tmp'.lines) :
                    tmp'.lines[i].cmd = <<"G", "1">>]_vars

\* a finished rewrite that replaced an arc of two points by two G1 lines
C11_Witness ==
    /\ pc = "done"
    /\ ~p.analyze_only
    /\ p.linearize
    /\ Len(file0.lines) = 1
    /\ ARC_RE(file0.lines[1].cmd)
    /\ Len(file.lines) = 2
    /\ file.lines[1].cmd = <<"G", "1">>
    /\ file.lines[2].cmd = <<"G", "1">>

---------------------------------------------------------------------------
(* linearize_arc_points called on its own *)

\* C12: linearize_arc_points returns at least one point, and the last point
\* it returns is the endpoint of the arc by the modal rule: the X and Y words
\* under G90, the current position plus the words under G91, the current
\* position for an absent word.
C12_EndsAtEndpoint ==
    pc = "returned_linearize" =>
        /\ Len(ret) >= 1
        /\ ret[Len(ret)] = ResolvedEnd(st, p.words)
        /\ ret[Len(ret)] = _arc_end_abs(st, p.words)

\* a relative arc of several points whose end is not at the radius of its
\* start, with a chord target and an angle target set
C12_Witness ==
    /\ pc = "returned_linearize"
    /\ ~st.abs_xy
    /\ Len(ret) > 2
    /\ p.seg_mm > 0
    /\ p.max_deg > 0
    /\ "X" \in DOMAIN p.words
    /\ "Y" \notin DOMAIN p.words
    /\ hypot(st.x - _arc_center(st, p.words)[1], st.y - _arc_center(st, p.words)[2])
         # hypot(ret[Len(ret)][1] - _arc_center(st, p.words)[1],
                 ret[Len(ret)][2] - _arc_center(st, p.words)[2])

---------------------------------------------------------------------------
(* The words of a rewritten move *)

\* the loop of rewrite reads a G0/G1 line with an X or a Y word while XY is
\* absolute
ReadsMoveXY ==
    /\ pc = "loop"
    /\ idx < Len(file.lines)
    /\ MOVE_RE(file.lines[idx + 1].cmd)
    /\ st.abs_xy
    /\ \E i \in DOMAIN file.lines[idx + 1].words :
           file.lines[idx + 1].words[i][1] \in {"X", "Y"}

\* out has the words of in, letter for letter and in the same order, and
\* those that are not X or Y unchanged
SameWordsButXY(in, out) ==
    /\ out.cmd = in.cmd
    /\ Len(out.words) = Len(in.words)
    /\ \A i \in DOMAIN in.words :
          /\ out.words[i][1] = in.words[i][1]
          /\ out.words[i][3] = in.words[i][3]
          /\ in.words[i][1] \notin {"X", "Y"} => out.words[i] = in.words[i]

\* C13: a G0/G1 line with an X or a Y word, rewritten under absolute XY, is
\* written as one line that has an X word exactly where the input has one and
\* a Y word exactly where the input has one, every other word being the same
\* and in the same place.
C13_XYInPlace ==
    [][(ReadsMoveXY /\ idx' = idx + 1) =>
          /\ Len(tmp'.lines) = Len(tmp.lines) + 1
          /\ SameWordsButXY(file.lines[idx + 1], tmp'.lines[Len(tmp'.lines)])]_vars

---------------------------------------------------------------------------
(* The output without linearization *)

\* a G0/G1 line that carries an X or a Y word
IsMoveXY(line) ==
    /\ MOVE_RE(line.cmd)
    /\ \E i \in DOMAIN line.words : line.words[i][1] \in {"X", "Y"}

\* C14: with linearization disabled, what a rewrite that met no hard error
\* has written is the metadata header followed by one line for each input line
\* read so far, in input order (all of them once the rewrite is done), and
\* every line that is not a G0/G1 with an X or a Y word is there as it was
\* read.
C14_LineForLine ==
    (~p.linearize /\ ~p.analyze_only /\ pc \in {"loop", "done"}) =>
        /\ Written.hdr = <<header(p, K, y_ref, dx, dy, skew_bounds)>>
        /\ Len(Written.lines) = idx
        /\ pc = "done" => idx = Len(file0.lines)
        /\ \A i \in 1..idx :
              /\ Written.lines[i].cmd = file0.lines[i].cmd
              /\ Written.lines[i].comment = file0.lines[i].comment
              /\ ~IsMoveXY(file0.lines[i]) => Written.lines[i] = file0.lines[i]

\* a finished rewrite of a comment and an arc, both written as they were read
C14_Witness ==
    /\ pc = "done"
    /\ ~p.linearize
    /\ ~p.analyze_only
    /\ p.skew_deg = 45
    /\ Len(file0.lines) = 2
    /\ file0.lines[1] = CommentOnly
    /\ ARC_RE(file0.lines[2].cmd)
    /\ file.lines = file0.lines
    /\ file.hdr # <<>>

---------------------------------------------------------------------------
(* Analyze-only runs *)

\* C15: at no point of a run with analyze_only set is there a temporary file,
\* and the target file is at every point what it was when the run began,
\* whether the run has ended with its report or with a hard error.
C15_AnalyzeOnlyReadOnly ==
    p.analyze_only =>
        /\ tmp = NoTmp
        /\ file = file0
        /\ pc # "loop"
        /\ idx = 0

\* an analyze-only rewrite of a document with moves, with shear and
\* recentering, that has printed its report
C15_Witness ==
    /\ p.analyze_only
    /\ pc = "done"
    /\ err = "none"
    /\ stdout # <<>>
    /\ p.skew_deg = 45
    /\ p.recenter
    /\ obox # ZeroBox
    /\ Len(file0.lines) = 2
    /\ file = file0

---------------------------------------------------------------------------
(* Documents without an in-bed extruding point *)

InBed(q, a) ==
    /\ a.bed_x_min <= q[1] /\ q[1] <= a.bed_x_max
    /\ a.bed_y_min <= q[2] /\ q[2] <= a.bed_y_max

\* the candidate points of a move: its endpoint by the modal rule, or the
\* linearized points of an arc when linearization is enabled
Candidates(t, line, words, a) ==
    IF ARC_RE(line.cmd) /\ a.linearize
    THEN linearize_arc_points(t, words, IsG2(line.cmd), a.arc_seg_mm, a.arc_max_deg)
    ELSE <<ResolvedEnd(t, words)>>

\* some extruding move of lines i.. has a candidate point inside the bed
RECURSIVE HasInBedCandidate(_, _, _, _)
HasInBedCandidate(t, lines, i, a) ==
    IF i > Len(lines) THEN FALSE
    ELSE LET line  == lines[i]
             words == parse_words(line.words)
             e1    == ResolvedEnd(t, words)
         IN  IF IsModal(line.cmd)
             THEN HasInBedCandidate(ModalUpdate(t, line.cmd), lines, i + 1, a)
             ELSE IF MOVE_RE(line.cmd) \/ ARC_RE(line.cmd)
             THEN \/ /\ _is_extruding_move(t, words)
                     /\ \E j \in DOMAIN Candidates(t, line, words, a) :
                            InBed(Candidates(t, line, words, a)[j], a)
                  \/ HasInBedCandidate(
                         [t EXCEPT !.x = e1[1], !.y = e1[2], !.e = TrackE(t, words)],
                         lines, i + 1, a)
             ELSE HasInBedCandidate([t EXCEPT !.e = TrackE(t, words)], lines, i + 1, a)

\* C16: on a document none of whose extruding moves has a candidate point
\* inside the bed, compute_inbed_extruding_bounds_original returns the box
\* (0,0,0,0), and compute_translation_for_bounds, unless it raises the
\* relative-XY error, raises no error and returns the translation (0,0) with
\* the box (0,0,0,0).
C16_NoCandidateZero ==
    ~HasInBedCandidate(State0, file0.lines, 1, p) =>
        /\ pc = "returned_original" => obox = ZeroBox
        /\ (pc = "returned_translation" /\ err # "relative_xy_recenter") =>
              /\ err = "none"
              /\ dx = 0
              /\ dy = 0
              /\ skew_bounds = ZeroBox

---------------------------------------------------------------------------
(* apply_skew_abs called on its own *)

\* the X displacement apply_skew_abs gives the point (x, y)
Displacement(x, y, k, yref) == apply_skew_abs(x, y, k, yref)[1] - x

\* C17: apply_skew_abs returns Y unchanged; the X displacement of a point at
\* y = yRef + d is d * k and is the negation of the displacement at
\* y = yRef - d; it is zero at y = yRef.
C17_ShearOnlyX ==
    pc = "returned_skew" =>
        /\ ret[2] = p.y
        /\ ret[1] - p.x = (p.y - p.y_ref) * p.k
        /\ Displacement(p.x, p.y_ref - (p.y - p.y_ref), p.k, p.y_ref) = 0 - (ret[1] - p.x)
        /\ p.y = p.y_ref => ret[1] = p.x

\* a point off the reference line, displaced to the left
C17_Witness ==
    /\ pc = "returned_skew"
    /\ p.y # p.y_ref
    /\ p.y_ref # 0
    /\ p.k # 0
    /\ ret[1] < p.x
    /\ ret[2] = p.y

---------------------------------------------------------------------------
(* Zero skew *)

\* the numeral of the axis as the line is parsed: the last word of that letter
NumeralOf(words, axis) == words[MaxOf({i \in DOMAIN words : words[i][1] = axis})][2]

\* the numerals a and b differ by at most half a unit of the last of `places`
\* decimal places
WithinPrecision(a, b, places) ==
    2 * Abs(a[1] * Pow10(b[2]) - b[1] * Pow10(a[2])) * Pow10(places) <= Pow10(a[2] + b[2])

\* C18: a rewrite with skew angle 0 and recentering disabled, on a document
\* in absolute XY, writes for every G0/G1 move X and Y values equal to those
\* of the input up to the precision of the output format, whatever the
\* shear-reference mode and value.
C18_ZeroSkewRoundTrip ==
    (p.skew_deg = 0 /\ ~p.recenter /\ ~p.linearize /\ ~p.analyze_only
        /\ pc \in {"loop", "done"}) =>
        \A i \in DOMAIN Written.lines :
            \A axis \in {"X", "Y"} :
                (\E j \in DOMAIN file0.lines[i].words : file0.lines[i].words[j][1] = axis) =>
                    /\ \E j \in DOMAIN Written.lines[i].words :
                           Written.lines[i].words[j][1] = axis
                    /\ WithinPrecision(NumeralOf(Written.lines[i].words, axis),
                                       NumeralOf(file0.lines[i].words, axis),
                                       p.xy_decimals)

---------------------------------------------------------------------------
(* Refinement of the linearization targets *)

\* the number of points for the arc of the call at hand under other targets
PointsUnder(seg_mm, max_deg) ==
    Len(linearize_arc_points(st, p.words, p.cw, seg_mm, max_deg))

\* the target t2 asks for steps at least as fine as t1: t1 sets no limit, or
\* both set one and t2 is the smaller
AtLeastAsFine(t2, t1) == t1 <= 0 \/ (0 < t2 /\ t2 <= t1)

\* C19 as stated: for a fixed arc and tracker, lowering the chord target or
\* the angle target, down to 0 included, never lowers the number of points.
C19_AnyDecrease ==
    pc = "returned_linearize" =>
        \A seg \in SegTargets, deg \in DegTargets :
            (seg <= p.seg_mm /\ deg <= p.max_deg) => PointsUnder(seg, deg) >= Len(ret)

\* C19: for a fixed arc and tracker, the number of points never goes down
\* when each target is replaced by one at least as fine, a target that is
\* zero or negative setting no limit at all.
C19_FinerTargets ==
    pc = "returned_linearize" =>
        \A seg \in SegTargets, deg \in DegTargets :
            (AtLeastAsFine(seg, p.seg_mm) /\ AtLeastAsFine(deg, p.max_deg)) =>
                PointsUnder(seg, deg) >= Len(ret)

\* an arc of several points under two positive targets, for which a smaller
\* chord target gives more points and a smaller angle target gives more points
C19_Witness ==
    /\ pc = "returned_linearize"
    /\ p.seg_mm > 0
    /\ p.max_deg > 0
    /\ Len(ret) > 1
    /\ \E seg \in SegTargets :
          0 < seg /\ seg < p.seg_mm /\ PointsUnder(seg, p.max_deg) > Len(ret)
    /\ \E deg \in DegTargets :
          0 < deg /\ deg < p.max_deg /\ PointsUnder(p.seg_mm, deg) > Len(ret)

---------------------------------------------------------------------------
(* Modal lines, one iteration of each pass *)

\* one of the four loops takes the line of the call at hand
StepsLine == pc = "call_step" /\ pc' # pc

\* C20: in the original-bounds pass, the translation pass, the analyze pass
\* and the rewrite pass alike, a G90.1 or G91.1 line sets arcCenterRelative
\* (false, true) and nothing else, a G90 or G91 line sets xyAbsolute and
\* nothing else, an M82 or M83 line sets extrusionAbsolute and nothing else;
\* the position is left as it was, and G90.1 and G91.1 are not taken for G90
\* and G91.
C20_ModalSetsOneFlag ==
    [][StepsLine =>
          /\ p.line = G90_1 => st' = [st EXCEPT !.ij_relative = FALSE]
          /\ p.line = G91_1 => st' = [st EXCEPT !.ij_relative = TRUE]
          /\ p.line = G90 => st' = [st EXCEPT !.abs_xy = TRUE]
          /\ p.line = G91 => st' = [st EXCEPT !.abs_xy = FALSE]
          /\ p.line = M82 => st' = [st EXCEPT !.abs_e = TRUE]
          /\ p.line = M83 => st' = [st EXCEPT !.abs_e = FALSE]]_vars

\* the rewrite loop, recentering and in relative XY away from the origin, has
\* taken a G90.1 line: centres are absolute and XY is still relative
C20_Witness ==
    /\ pc = "stepped_rewrite"
    /\ p.line = G90_1
    /\ p.a.recenter
    /\ ret.err = "none"
    /\ ret.out = <<G90_1>>
    /\ ~st.ij_relative
    /\ ~st.abs_xy
    /\ ~st.abs_e
    /\ st.x = Mm(1)
    /\ st.e = Mm(1)

---------------------------------------------------------------------------
(* The modal rule in the original-bounds pass *)

\* the box after a line whose only candidate point is its endpoint by the
\* modal rule
EndpointOnly(t, words, a) ==
    IF _is_extruding_move(t, words) /\ InBed(ResolvedEnd(t, words), a)
    THEN upd(EmptyBox, ResolvedEnd(t, words)[1], ResolvedEnd(t, words)[2])
    ELSE EmptyBox

\* the loop of the original-bounds pass takes a G0/G1/G2/G3 line
StepsOriginalMove ==
    /\ StepsLine
    /\ pc' = "stepped_original"
    /\ MOVE_RE(p.line.cmd) \/ ARC_RE(p.line.cmd)

\* C21: in the original-bounds pass, from any tracker state, a G0/G1 line and
\* a G2/G3 line alike leave the tracked X/Y at the endpoint resolved by the
\* modal rule (under G90 the word, or the last position when it is absent;
\* under G91 the last position plus the word, 0 when absent), and the
\* candidate endpoint tested against the bed and accumulated is that point.
C21_ModalEndpoints ==
    [][StepsOriginalMove =>
          LET words == parse_words(p.line.words)
              e1    == ResolvedEnd(st, words)
          IN  /\ st'.x = e1[1]
              /\ st'.y = e1[2]
              /\ MOVE_RE(p.line.cmd) => ret' = EndpointOnly(st, words, StepArgs)
              /\ (ARC_RE(p.line.cmd) /\ _is_extruding_move(st, words)
                    /\ InBed(e1, StepArgs)) =>
                    /\ ret'.minx <= e1[1] /\ e1[1] <= ret'.maxx
                    /\ ret'.miny <= e1[2] /\ e1[2] <= ret'.maxy]_vars

---------------------------------------------------------------------------
(* The E position on lines that are neither modal nor moves *)

\* a line that is not modal and not a G0/G1/G2/G3 move and carries an E word
OtherWithE(line) ==
    /\ ~IsBlank(line)
    /\ ~IsModal(line.cmd)
    /\ ~MOVE_RE(line.cmd)
    /\ ~ARC_RE(line.cmd)
    /\ Has(parse_words(line.words), "E")

\* the lines the rewrite loop has taken
TakenLines == SubSeq(file0.lines, 1, idx)

\* the loop of rewrite takes the next line without raising
TakesLine == pc = "loop" /\ pc' = "loop" /\ idx' = idx + 1

\* C22: a line that is neither modal nor a G0/G1/G2/G3 move and carries an E
\* word sets the tracked E (to the word under M82, increased by the word
\* under M83) and nothing else; after any prefix of a document that stays in
\* absolute XY, the E position the rewrite loop tracks equals the one the
\* original-bounds pass and the translation pass track on the same prefix.
C22_TracksE ==
    /\ [](( /\ pc = "loop"
            /\ \A i \in 1..idx : ~IsG91(file0.lines[i]) ) =>
              /\ st.e = ScanOriginal([st |-> State0, box |-> EmptyBox], TakenLines, 1,
                                     PassArgs(p, K, y_ref)).st.e
              /\ st.e = ScanTranslation(ScanStart, TakenLines, 1,
                                        PassArgs(p, K, y_ref)).st.e)
    /\ [][(TakesLine /\ OtherWithE(file.lines[idx + 1])) =>
             st' = [st EXCEPT !.e = TrackE(st, parse_words(file.lines[idx + 1].words))]]_vars

---------------------------------------------------------------------------
(* Which point the translation pass tests against the bed *)

\* the sheared image of the point q
Sheared(q, a) == apply_skew_abs(q[1], q[2], a.k, a.y_ref)

\* the sheared images of the candidate points pts accumulated into box: of
\* those whose sheared image is inside the bed (test_sheared), or of those
\* that are inside the bed themselves
RECURSIVE AccumulateSheared(_, _, _, _, _)
AccumulateSheared(box, pts, i, a, test_sheared) ==
    IF i > Len(pts) THEN box
    ELSE AccumulateSheared(
             IF InBed(IF test_sheared THEN Sheared(pts[i], a) ELSE pts[i], a)
             THEN upd(box, Sheared(pts[i], a)[1], Sheared(pts[i], a)[2])
             ELSE box,
             pts, i + 1, a, test_sheared)

\* the box of a document that stays in absolute XY, by either test
RECURSIVE ShearedBox(_, _, _, _, _, _)
ShearedBox(box, t, lines, i, a, test_sheared) ==
    IF i > Len(lines) THEN box
    ELSE LET line  == lines[i]
             words == parse_words(line.words)
             e1    == ResolvedEnd(t, words)
         IN  IF IsModal(line.cmd)
             THEN ShearedBox(box, ModalUpdate(t, line.cmd), lines, i + 1, a, test_sheared)
             ELSE IF MOVE_RE(line.cmd) \/ ARC_RE(line.cmd)
             THEN ShearedBox(
                      IF _is_extruding_move(t, words)
                      THEN AccumulateSheared(box, Candidates(t, line, words, a), 1, a,
                                             test_sheared)
                      ELSE box,
                      [t EXCEPT !.x = e1[1], !.y = e1[2], !.e = TrackE(t, words)],
                      lines, i + 1, a, test_sheared)
             ELSE ShearedBox(box, [t EXCEPT !.e = TrackE(t, words)], lines, i + 1, a,
                             test_sheared)

\* C23 as stated: in the translation pass each candidate point of an
\* extruding move is sheared first, and the sheared point is the one tested
\* against the inclusive bed rectangle and, if inside, accumulated.
C23_ShearedTested ==
    (pc = "returned_translation" /\ err = "none") =>
        skew_bounds = box_or_zero(ShearedBox(EmptyBox, State0, file0.lines, 1, p, TRUE))

\* C23, amended: in the translation pass each candidate point of an extruding
\* move is tested against the inclusive bed rectangle as it stands in the
\* document, and if it is inside, its sheared image is accumulated into the
\* box, whether that image is inside the bed or not.
C23_OriginalTested ==
    (pc = "returned_translation" /\ err = "none") =>
        skew_bounds = box_or_zero(ShearedBox(EmptyBox, State0, file0.lines, 1, p, FALSE))

\* the pass has returned a box that reaches beyond the bed on the right: a
\* point inside the bed whose sheared image is outside was accumulated, and
\* the translation brings it back
C23_Witness ==
    /\ pc = "returned_translation"
    /\ err = "none"
    /\ p.k = 1
    /\ skew_bounds.maxx > p.bed_x_max
    /\ dx < 0
    /\ \E i \in DOMAIN file0.lines :
          LET words == parse_words(file0.lines[i].words)
          IN  /\ MOVE_RE(file0.lines[i].cmd)
              /\ Has(words, "X") /\ Has(words, "Y") /\ Has(words, "E")
              /\ InBed(<<words["X"], words["Y"]>>, p)
              /\ ~InBed(Sheared(<<words["X"], words["Y"]>>, p), p)

---------------------------------------------------------------------------
(* Extrusion along a linearized arc *)

\* the extrusion mode and the E position left by lines i.. of a document read
\* from the tracker t: a modal line sets its flag, any other line with an E
\* word sets E
RECURSIVE ELeftBy(_, _, _)
ELeftBy(t, lines, i) ==
    IF i > Len(lines) THEN t
    ELSE IF IsModal(lines[i].cmd)
    THEN ELeftBy(ModalUpdate(t, lines[i].cmd), lines, i + 1)
    ELSE ELeftBy([t EXCEPT !.e = TrackE(t, parse_words(lines[i].words))], lines, i + 1)

\* the numeral num is the value v / den model units up to half a unit of the
\* last of `places` decimal places
NearValue(num, v, den, places) ==
    2 * Abs(num[1] * 8 * den - v * Pow10(num[2])) * Pow10(places) <= 8 * den * Pow10(num[2])

\* the loop of rewrite replaces an arc that carries an E word
LinearizesArcWithE ==
    /\ TakesLine
    /\ p.linearize
    /\ ARC_RE(file.lines[idx + 1].cmd)
    /\ Has(parse_words(file.lines[idx + 1].words), "E")

\* C24: a linearized arc with an E word is replaced by n lines of which, under
\* absolute extrusion, line i carries E = start + (end - start) * i / n up to
\* the output precision and the last one exactly end, start being the E
\* position left by the lines before the arc and end the arc's E word; under
\* relative extrusion every line carries the arc's E word divided by n; after
\* the arc the tracked E is the resolved absolute end value.
C24_ArcExtrusion ==
    [][LinearizesArcWithE =>
          LET word  == parse_words(file.lines[idx + 1].words)["E"]
              t0    == ELeftBy(State0, TakenLines, 1)
              end   == IF t0.abs_e THEN word ELSE t0.e + word
              out   == SubSeq(tmp'.lines, Len(tmp.lines) + 1, Len(tmp'.lines))
              n     == Len(out)
              E(i)  == NumeralOf(out[i].words, "E")
          IN  /\ n >= 1
              /\ \A i \in 1..n :
                    /\ \E j \in DOMAIN out[i].words : out[i].words[j][1] = "E"
                    /\ IF t0.abs_e
                       THEN NearValue(E(i), t0.e * n + (end - t0.e) * i, n, p.other_decimals)
                       ELSE NearValue(E(i), word, n, p.other_decimals)
              /\ t0.abs_e => E(n)[1] * 8 = end * Pow10(E(n)[2])
              /\ st'.e = end]_vars

---------------------------------------------------------------------------
(* _sweep called on its own *)

\* d is congruent to a1 - a0 modulo a full turn, of magnitude below a full
\* turn, and of the sign of the direction asked
IsSweepOf(d, a0, a1, cw) ==
    /\ (d - (a1 - a0)) % 4 = 0
    /\ Abs(d) < 4
    /\ IF cw THEN d <= 0 ELSE d >= 0

\* C25: the sweep _sweep returns for a start angle a0 and an end angle a1 is
\* congruent to a1 - a0 modulo a full turn, is <= 0 for a clockwise arc and
\* >= 0 for a counter-clockwise one, and is of magnitude below a full turn;
\* it is the only such value, for every pair of angles, equal ones and ones a
\* quarter turn short of a full turn included.
C25_Sweep ==
    pc = "returned_sweep" =>
        /\ IsSweepOf(ret, p.a0, p.a1, p.cw)
        /\ \A d \in -8..8 : IsSweepOf(d, p.a0, p.a1, p.cw) => d = ret

\* a clockwise arc from the angle pi to the angle -pi/2, a quarter turn the
\* counter-clockwise way, sweeps three quarter turns clockwise
C25_Witness ==
    /\ pc = "returned_sweep"
    /\ p.cw
    /\ p.a0 = 2
    /\ p.a1 = -1
    /\ ret = -3

---------------------------------------------------------------------------
(* No point accumulated, and a box at the origin *)

\* the candidate points inside the bed of the extruding moves of lines i..
RECURSIVE InBedCandidates(_, _, _, _)
InBedCandidates(t, lines, i, a) ==
    IF i > Len(lines) THEN {}
    ELSE LET line  == lines[i]
             words == parse_words(line.words)
             e1    == ResolvedEnd(t, words)
             pts   == Candidates(t, line, words, a)
         IN  IF IsModal(line.cmd)
             THEN InBedCandidates(ModalUpdate(t, line.cmd), lines, i + 1, a)
             ELSE IF MOVE_RE(line.cmd) \/ ARC_RE(line.cmd)
             THEN (IF _is_extruding_move(t, words)
                   THEN {pts[j] : j \in {n \in DOMAIN pts : InBed(pts[n], a)}}
                   ELSE {})
                  \cup InBedCandidates(
                           [t EXCEPT !.x = e1[1], !.y = e1[2], !.e = TrackE(t, words)],
                           lines, i + 1, a)
             ELSE InBedCandidates([t EXCEPT !.e = TrackE(t, words)], lines, i + 1, a)

\* what the translation pass returns on a document
TranslationOf(lines, a) ==
    LET r == compute_translation_for_bounds(lines, a)
    IN  <<r.err, r.dx, r.dy, r.box>>

\* C26: on a document whose only in-bed extruding point is (0,0), the box
\* compute_inbed_extruding_bounds_original returns differs from the one it
\* returns on a document without any in-bed extruding point, and so does what
\* compute_translation_for_bounds returns (dx, dy, box) under the center
\* policy.
C26_EmptyDistinct ==
    InBedCandidates(State0, file0.lines, 1, p) = {<<0, 0>>} =>
        /\ pc = "returned_original" =>
              obox # compute_inbed_extruding_bounds_original(<<>>, p)
        /\ (pc = "returned_translation" /\ p.recenter_mode = "center") =>
              <<err, dx, dy, skew_bounds>> # TranslationOf(<<>>, p)

---------------------------------------------------------------------------
(* The output replayed by a controller in absolute XY *)

\* the X and Y numerals a controller holds after lines i.. of the output, from
\* the numerals m: a word sets its axis, an absent word keeps it
RECURSIVE MachineAfter(_, _, _)
MachineAfter(m, lines, i) ==
    IF i > Len(lines) THEN m
    ELSE LET line == lines[i]
             has(axis) == \E j \in DOMAIN line.words : line.words[j][1] = axis
         IN  IF MOVE_RE(line.cmd) \/ ARC_RE(line.cmd)
             THEN MachineAfter(<<IF has("X") THEN NumeralOf(line.words, "X") ELSE m[1],
                                 IF has("Y") THEN NumeralOf(line.words, "Y") ELSE m[2]>>,
                               lines, i + 1)
             ELSE MachineAfter(m, lines, i + 1)

\* the position reached by lines i.. of a document in absolute XY, from q
RECURSIVE PositionAfter(_, _, _)
PositionAfter(q, lines, i) ==
    IF i > Len(lines) THEN q
    ELSE LET words == parse_words(lines[i].words)
         IN  IF MOVE_RE(lines[i].cmd) \/ ARC_RE(lines[i].cmd)
             THEN PositionAfter(<<Get(words, "X", q[1]), Get(words, "Y", q[2])>>, lines, i + 1)
             ELSE PositionAfter(q, lines, i + 1)

\* the image of the point q under the shear and the translation of the run
ImageOf(q) == <<apply_skew_abs(q[1], q[2], K, y_ref)[1] + dx,
                apply_skew_abs(q[1], q[2], K, y_ref)[2] + dy>>

\* the loop of rewrite has just taken a G0/G1 line of a document that has
\* been in absolute XY so far
AfterMoveInAbsolute ==
    /\ pc = "loop"
    /\ idx >= 1
    /\ MOVE_RE(file0.lines[idx].cmd)
    /\ \A i \in 1..idx : ~IsG91(file0.lines[i])

\* C27: after every G0/G1 line of a document in absolute XY, the position of
\* a controller that replays the lines written so far (an absent axis word
\* keeps the current value) is, up to the output precision, the sheared and
\* translated image of the position reached by replaying the input up to
\* that line, lines with only an X word or only a Y word included.
C27_ReplayIsImage ==
    AfterMoveInAbsolute =>
        LET m   == MachineAfter(<<<<0, 0>>, <<0, 0>>>>, tmp.lines, 1)
            img == ImageOf(PositionAfter(<<0, 0>>, TakenLines, 1))
        IN  /\ NearValue(m[1], img[1], 1, p.xy_decimals)
            /\ NearValue(m[2], img[2], 1, p.xy_decimals)

====
